---------------------------- MODULE Spec2Model ----------------------------
(***************************************************************************)
(* Model of pytoclaw.  Its parts, each with its own specification:         *)
(*   Spec        one turn of AgentLoop._run_agent_loop followed by         *)
(*               _maybe_summarize (src/src/pytoclaw/agent/loop.py)         *)
(*   SpecRun     the message-consumption loop AgentLoop.run with stop()    *)
(*   SpecOverlap two turns on one session key, interleaved at their awaits *)
(*   SpecChat    CodexProvider.chat and its retry loop                     *)
(*               (src/src/pytoclaw/providers/codex_provider.py)            *)
(*   SpecStream  CodexProvider._stream_request on a 200 response           *)
(*   SpecCreds   CredentialStore (src/src/pytoclaw/auth/credentials.py)    *)
(*   SpecParse   _parse_auth_input (src/src/pytoclaw/auth/openai_oauth.py) *)
(*                                                                         *)
(* Text is modelled as a sequence of tokens; the empty text is << >>.      *)
(* Concatenation is \o, so a prefix or a substring of a text is a prefix   *)
(* or a run of its tokens.                                                 *)
(***************************************************************************)
EXTENDS Naturals, Integers, Sequences, FiniteSets, TLC

VARIABLES
    opts,           \* ProcessOptions of the turn
    max_iterations, \* agent.max_iterations
    sess,           \* the session store's entry for opts.session_key
    saves,          \* number of sessions.save calls made so far
    pc,             \* position of the turn
    exc,            \* the exception that escaped the turn ("none" if none)
    messages,       \* the in-memory message list of the turn
    response,       \* the local response (NoResponse while unbound)
    response_text,  \* the local response_text
    error_msg,      \* the local error_msg (str(e) of the provider failure)
    ctxLen,         \* length of the message list the context builder returned
    iteration,      \* number of completed iterations of the for loop
    tcIdx,          \* index of the next tool call of response to process
    sumHist,        \* the local history of _maybe_summarize
    calls,          \* provider.chat calls made by the main loop
    sumCalls,       \* provider.chat calls made by _maybe_summarize
    toolLog,        \* the tool executor's invocations, in order
    exitKind,       \* how the for loop ended
    hist0,          \* length of the stored history when the turn began
    ctxIn,          \* the history and summary handed to the context builder
    sumOutcome,     \* how the summarization of the turn went ("none" if none)
    \* AgentLoop.run
    running,        \* self._running
    rpc,            \* position of run()
    inbound,        \* the bus's queue of inbound messages
    inflight,       \* the turns in flight, each with its message and phase
    handled,        \* the turns that have ended, in order, with their outcome
    stopped,        \* stop() has been called
    \* CodexProvider.chat
    cpc,            \* position of chat()
    attempt,        \* the retry loop's attempt
    chatLog,        \* what each request made so far met, in order
    delays,         \* the delays chat() has slept, in order
    lastResp,       \* what the latest request met: status and body
    chatResult,     \* what chat() returned or raised
    \* CodexProvider._stream_request on a 200 response
    spc,            \* position of the stream: closed, reading, returned, raised
    content_parts,  \* the local content_parts
    tool_calls_by_idx, \* the local tool_calls_by_idx, in insertion order
    usage_data,     \* the local usage_data (NoUsage while empty)
    stop_reason,    \* the local stop_reason
    events,         \* the events the loop has taken from the stream, in order
    streamResult,   \* the LLMResponse returned (NoStreamResult before)
    \* CredentialStore
    credentials,    \* self._credentials, in insertion order
    credFile,       \* credentials.json: exists, parses as JSON, its entries
    now,            \* time.time()
    credRet,        \* the latest operation of the store, what it returned, and
                    \* the number of operations so far
    \* _parse_auth_input
    ppc,            \* position: input, parsed
    authInput,      \* the pasted value
    expectedState,  \* expected_state
    authCode,       \* the value returned
    \* Two turns on one session key
    osess,          \* the session store's entry the two turns share
    oturn,          \* per turn: position, locals of _maybe_summarize, rounds
    oappended,      \* the messages the turns have appended, in order
    osummarized,    \* the messages a completed summarization had read
    ocopies         \* get_history returns a copy (TRUE) or the stored list

loopVars == <<opts, max_iterations, sess, saves, pc, exc, messages, response,
              response_text, error_msg, ctxLen, iteration, tcIdx, sumHist,
              calls, sumCalls, toolLog, exitKind, hist0, ctxIn, sumOutcome>>

runVars == <<running, rpc, inbound, inflight, handled, stopped>>

chatVars == <<cpc, attempt, chatLog, delays, lastResp, chatResult>>

streamVars == <<spc, content_parts, tool_calls_by_idx, usage_data,
                stop_reason, events, streamResult>>

credVars == <<credentials, credFile, now, credRet>>

parseVars == <<ppc, authInput, expectedState, authCode>>

overlapVars == <<osess, oturn, oappended, osummarized, ocopies>>

vars == <<loopVars, runVars, chatVars, streamVars, credVars, parseVars,
          overlapVars>>

\* What the actions of each part leave alone
notLoop == <<runVars, chatVars, streamVars, credVars, parseVars,
    overlapVars>>

notRun == <<loopVars, chatVars, streamVars, credVars, parseVars,
    overlapVars>>

notChat == <<loopVars, runVars, streamVars, credVars, parseVars,
    overlapVars>>

notStream == <<loopVars, runVars, credVars, parseVars,
    overlapVars>>

notCred == <<loopVars, runVars, chatVars, streamVars, parseVars,
    overlapVars>>

notParse == <<loopVars, runVars, chatVars, streamVars, credVars,
    overlapVars>>

notOverlap == <<loopVars, runVars, chatVars, streamVars, credVars, parseVars>>

-----------------------------------------------------------------------------
(* Bounds *)

MaxIter == 2
MaxToolCalls == 2

(* Program constants *)

SummarizeThreshold == 20
KeepLast == 4

AgentModel == "gpt-5"

-----------------------------------------------------------------------------
(* Data *)

EmptyText == << >>

Msg(role, content, tool_calls, tool_call_id) ==
    [role |-> role, content |-> content, tool_calls |-> tool_calls,
     tool_call_id |-> tool_call_id]

\* sessions.add_message(key, role, text): a plain message
PlainMsg(role, content) == Msg(role, content, << >>, "")

\* A ToolCall as a provider returns it.  fn = TRUE: the call carries a
\* FunctionCall whose arguments string is ser;
\* fn = FALSE: the arguments are the already structured map.
ToolCallRec(id, name, fn, ser, arguments) ==
    [id |-> id, name |-> name, fn |-> fn, ser |-> ser, arguments |-> arguments]

\* The tool calls a provider may return: a well-formed serialized call, a
\* structured call, and a call whose serialized arguments were cut short.
TcA == ToolCallRec("call_a", "search", TRUE, "{\"q\":1}", "none")
TcB == ToolCallRec("call_b", "read", FALSE, "", "q=1")
TcC == ToolCallRec("call_c", "write", TRUE, "{\"q\":", "none")
ToolCallPool == <<TcA, TcB, TcC>>

RECURSIVE SubSeqsOf(_)
\* All order-preserving selections from a sequence
SubSeqsOf(s) ==
    IF s = << >> THEN { << >> }
    ELSE LET rest == SubSeqsOf(Tail(s))
         IN  rest \cup { <<Head(s)>> \o r : r \in rest }

ToolCallLists == { l \in SubSeqsOf(ToolCallPool) : Len(l) <= MaxToolCalls }

Contents == { EmptyText, <<"hi">> }

\* LLMResponse (content, tool_calls)
Responses == [content : Contents, tool_calls : ToolCallLists]

NoResponse == [content |-> <<"unbound">>, tool_calls |-> <<"unbound">>]

\* str(e) of the exceptions provider.chat may raise
ErrorTexts == { <<"HTTP ", "404">>, <<"unknown ", "Model">>, <<"timeout">> }

\* result.for_llm of the tool executor
ToolResults == { <<"ok">>, <<"Error: tool failed">> }


\* ProcessOptions of one invocation (loop.py, ProcessOptions)
OptionSet ==
    [no_history : BOOLEAN, enable_summary : BOOLEAN,
     default_response : { EmptyText, <<"fallback">> },
     user_message : { <<"hello">> }]

\* Lengths of the stored history a turn may start from: a new session, a
\* session two messages below the threshold, a session left above the
\* threshold by a summarization whose provider call failed.
InitLens == { 0, SummarizeThreshold - 2, SummarizeThreshold + 1 }

\* A stored history of n messages, user and assistant messages alternating
StoredHistory(n) ==
    [i \in 1..n |->
        IF i % 2 = 1 THEN PlainMsg("user", <<"u">>)
                     ELSE PlainMsg("assistant", <<"a">>)]

\* A summary exists only once a summarization has run, which leaves a
\* history of KeepLast messages or more
InitSessions ==
    { s \in [history : { StoredHistory(n) : n \in InitLens },
             summary : { EmptyText, <<"old summary">> }] :
        s.summary # EmptyText => Len(s.history) >= KeepLast }

\* The text a summarization provider call returns
SummaryTexts == { <<"new summary">> }

-----------------------------------------------------------------------------
(* Collaborators *)

\* sessions.add_message / sessions.add_full_message: append to the history
AddFullMessage(s, m) == [s EXCEPT !.history = Append(@, m)]

AddMessage(s, role, text) == AddFullMessage(s, PlainMsg(role, text))

\* context_builder.build_messages: system prompt with the summary, then
\* the history, then the current message
BuildMessages(history, summary, current_message) ==
    <<PlainMsg("system", <<"system prompt">> \o summary)>>
        \o history \o <<PlainMsg("user", current_message)>>

\* json.loads of a serialized arguments string: does it parse?
JsonParses(s) == s \in { "{}", "{\"q\":1}" }

\* json.loads of a serialized arguments string that parses
JsonLoads(s) == IF s = "{}" THEN "empty" ELSE "q=1"

-----------------------------------------------------------------------------
(* Pure parts of _run_agent_loop *)

\* str.lower() on the tokens of an error text
Lower(tok) == IF tok = "Model" THEN "model" ELSE tok

Contains(text, tok) == \E i \in 1..Len(text) : text[i] = tok

LowerText(text) == [i \in 1..Len(text) |-> Lower(text[i])]

\* Mutant of IsModelError: the comparison is case-sensitive
IsModelErrorCaseSensitive(e) == Contains(e, "404") \/ Contains(e, "model")

\* loop.py 146: "404" in error_msg or "model" in error_msg.lower()
IsModelError(e) ==
    Contains(e, "404") \/ Contains(LowerText(e), "model")

ModelErrorText(e) ==
    <<"Model error: ">> \o e
        \o <<"\n\nCurrent model: ", AgentModel,
             ". Use /model to check, or re-run pytoclaw onboard to reconfigure.">>

ProviderErrorText(e) == <<"LLM provider error: ">> \o e

\* loop.py 144-153: the text synthesized for a failed provider call
ErrorResponseText(e) ==
    IF IsModelError(e) THEN ModelErrorText(e)
    ELSE ProviderErrorText(e)

MaxIterMarker == <<"(max iterations reached)">>

\* Mutant of ExhaustedText: default_response is preferred to the content
ExhaustedTextDefaultFirst(content, default_response) ==
    IF default_response # EmptyText THEN default_response
    ELSE IF content # EmptyText THEN content
    ELSE MaxIterMarker

\* loop.py 195: response.content or opts.default_response or the marker
ExhaustedText(content, default_response) ==
    IF content # EmptyText THEN content
    ELSE IF default_response # EmptyText THEN default_response
    ELSE MaxIterMarker

\* loop.py 174-178: does resolving the arguments of a tool call raise?
ArgsRaise(tc) == tc.fn /\ tc.ser # "" /\ ~JsonParses(tc.ser)

\* loop.py 174-178: the arguments handed to the tool executor
ToolArgs(tc) == IF tc.fn /\ tc.ser # "" THEN JsonLoads(tc.ser) ELSE tc.arguments

\* loop.py 163-167
AssistantMsg(r) == Msg("assistant", r.content, r.tool_calls, "")

\* loop.py 185-189
ToolMsg(tc, result) == Msg("tool", result, << >>, tc.id)

-----------------------------------------------------------------------------
(* State *)

\* The context builder has not been called yet
NoContext == [history |-> <<"none">>, summary |-> <<"none">>]

\* run() has not been called; no message is queued
RunIdle ==
    /\ running = FALSE
    /\ rpc = "idle"
    /\ inbound = << >>
    /\ inflight = << >>
    /\ handled = << >>
    /\ stopped = FALSE

\* chat() has not been called
ChatIdle ==
    /\ cpc = "idle"
    /\ attempt = 0
    /\ chatLog = << >>
    /\ delays = << >>
    /\ lastResp = [kind |-> "none", status |-> 0, body |-> "none"]
    /\ chatResult = [kind |-> "none", text |-> << >>, attempt |-> 0]

\* usage_data = {} / usage=None
NoUsage == [reported |-> FALSE, input |-> 0, output |-> 0]

\* _stream_request has not returned
NoStreamResult ==
    [content |-> <<"none">>, tool_calls |-> << >>, usage |-> NoUsage,
     finish_reason |-> "none"]

\* No stream is open
StreamIdle ==
    /\ spc = "closed"
    /\ content_parts = << >>
    /\ tool_calls_by_idx = << >>
    /\ usage_data = NoUsage
    /\ stop_reason = "stop"
    /\ events = << >>
    /\ streamResult = NoStreamResult

\* credentials.json does not exist
NoFile == [exists |-> FALSE, json |-> FALSE, data |-> << >>]

\* No operation of the credential store has been called
NoReturn ==
    [op |-> "none", provider |-> "", value |-> "none", refresh |-> "none",
     n |-> 0]

\* No credential store is in use
CredIdle ==
    /\ credentials = << >>
    /\ credFile = NoFile
    /\ now = 0
    /\ credRet = NoReturn

\* _parse_auth_input has not returned
NoCode == [kind |-> "none", text |-> << >>]

\* _parse_auth_input is not in use
ParseIdle ==
    /\ ppc = "idle"
    /\ authInput = << >>
    /\ expectedState = ""
    /\ authCode = NoCode

\* No turn of the two overlapping ones has been started
OverlapIdle ==
    /\ osess = [history |-> << >>, summary |-> << >>]
    /\ oturn = << >>
    /\ oappended = << >>
    /\ osummarized = {}
    /\ ocopies = TRUE

\* The parts outside the agent loop, run() and chat() are not in use
RestIdle == StreamIdle /\ CredIdle /\ ParseIdle /\ OverlapIdle

Init ==
    /\ opts \in OptionSet
    /\ max_iterations \in 0..MaxIter
    /\ sess \in InitSessions
    /\ saves = 0
    /\ pc = "start"
    /\ exc = "none"
    /\ messages = << >>
    /\ response = NoResponse
    /\ response_text = EmptyText
    /\ error_msg = EmptyText
    /\ ctxLen = 0
    /\ iteration = 0
    /\ tcIdx = 0
    /\ sumHist = << >>
    /\ calls = 0
    /\ sumCalls = 0
    /\ toolLog = << >>
    /\ exitKind = "none"
    /\ hist0 = Len(sess.history)
    /\ ctxIn = NoContext
    /\ sumOutcome = "none"
    /\ RunIdle
    /\ ChatIdle
    /\ RestIdle

\* An exception leaves _run_agent_loop
Raise(e) == pc' = "raised" /\ exc' = e

-----------------------------------------------------------------------------
(* _run_agent_loop *)

\* loop.py 121-136: load the session, store the user message, build context
LoadContext ==
    /\ pc = "start"
    /\ LET history == IF opts.no_history THEN << >> ELSE sess.history
           summary == sess.summary
           built == BuildMessages(history, summary, opts.user_message)
       IN  /\ messages' = built /\ ctxLen' = Len(built)
           /\ ctxIn' = [history |-> history, summary |-> summary]
    /\ sess' = IF opts.no_history THEN sess
               ELSE AddMessage(sess, "user", opts.user_message)
    /\ pc' = "loop"
    /\ UNCHANGED <<opts, max_iterations, saves, exc, response, response_text,
                   error_msg, iteration, tcIdx, sumHist, calls, sumCalls,
                   toolLog, exitKind, hist0, sumOutcome>>
    /\ UNCHANGED notLoop

\* Mutant of LoopContinues: the bound is off by one
LoopContinuesOffByOne == iteration <= max_iterations

\* loop.py 140: the for loop has another iteration to run
LoopContinues == iteration < max_iterations

\* loop.py 155: the break after a failed provider call leaves the loop
ErrorExit == "persist"

\* loop.py 141-155: provider.chat raises; the loop breaks with a synthesized text
LLMRaises ==
    /\ pc = "loop" /\ LoopContinues
    /\ \E e \in ErrorTexts :
        /\ error_msg' = e
        /\ response_text' = ErrorResponseText(e)
    /\ calls' = calls + 1
    /\ exitKind' = "error"
    /\ pc' = ErrorExit
    /\ UNCHANGED <<opts, max_iterations, sess, saves, exc, messages,
                   response, ctxLen, iteration, tcIdx, sumHist, sumCalls,
                   toolLog, hist0, ctxIn, sumOutcome>>
    /\ UNCHANGED notLoop

\* Mutant of AnswerExit: the break is missing
AnswerExitNoBreak == "loop"

\* loop.py 160: the break after a response without tool calls leaves the loop
AnswerExit == "persist"

\* loop.py 157-160: a response without tool calls is the final answer
LLMAnswers ==
    /\ pc = "loop" /\ LoopContinues
    /\ \E r \in Responses :
        /\ r.tool_calls = << >>
        /\ response' = r
        /\ response_text' = r.content
    /\ calls' = calls + 1
    /\ exitKind' = "answer"
    /\ pc' = AnswerExit
    /\ UNCHANGED <<opts, max_iterations, sess, saves, exc, messages,
                   error_msg, ctxLen, iteration, tcIdx, sumHist, sumCalls,
                   toolLog, hist0, ctxIn, sumOutcome>>
    /\ UNCHANGED notLoop

\* loop.py 162-170: a response with tool calls; the assistant message is
\* appended to the message list and, unless no_history, to the session
LLMRequestsTools ==
    /\ pc = "loop" /\ LoopContinues
    /\ \E r \in Responses :
        /\ r.tool_calls # << >>
        /\ response' = r
        /\ messages' = Append(messages, AssistantMsg(r))
        /\ sess' = IF opts.no_history THEN sess
                   ELSE AddFullMessage(sess, AssistantMsg(r))
    /\ calls' = calls + 1
    /\ tcIdx' = 1
    /\ pc' = "tools"
    /\ UNCHANGED <<opts, max_iterations, saves, exc, response_text,
                   error_msg, ctxLen, iteration, sumHist, sumCalls, toolLog,
                   exitKind, hist0, ctxIn, sumOutcome>>
    /\ UNCHANGED notLoop

\* Mutant of NextToolCall: the tool calls are processed last to first
NextToolCallReversed(r, i) == r.tool_calls[Len(r.tool_calls) - i + 1]

\* loop.py 172: the i-th tool call the inner for loop processes
NextToolCall(r, i) == r.tool_calls[i]

\* loop.py 172-178: json.loads of the serialized arguments raises; nothing
\* in _run_agent_loop catches it
ToolArgsMalformed ==
    /\ pc = "tools"
    /\ ArgsRaise(NextToolCall(response, tcIdx))
    /\ Raise("JSONDecodeError")
    /\ UNCHANGED <<opts, max_iterations, sess, saves, messages, response,
                   response_text, error_msg, ctxLen, iteration, tcIdx,
                   sumHist, calls, sumCalls, toolLog, exitKind, hist0, ctxIn,
                   sumOutcome>>
    /\ UNCHANGED notLoop

\* Mutant of AfterToolCall: an error result ends the turn
AfterToolCallAbortsOnError(result, i) ==
    IF result = <<"Error: tool failed">> THEN "persist"
    ELSE IF i < Len(response.tool_calls) THEN "tools" ELSE "loop"

\* loop.py 172-192: where the turn goes after the i-th tool call returned
\* result: to the next tool call, or to the next iteration of the loop.
\* The result is not looked at.
AfterToolCall(result, i) ==
    IF i < Len(response.tool_calls) THEN "tools" ELSE "loop"

\* loop.py 172-192: one tool call: resolve, execute, append the tool message
ToolExecute ==
    /\ pc = "tools"
    /\ LET tc == NextToolCall(response, tcIdx)
       IN  /\ ~ArgsRaise(tc)
           /\ \E result \in ToolResults :
                /\ toolLog' = Append(toolLog,
                        [name |-> tc.name, args |-> ToolArgs(tc),
                         id |-> tc.id, result |-> result])
                /\ messages' = Append(messages, ToolMsg(tc, result))
                /\ sess' = IF opts.no_history THEN sess
                           ELSE AddFullMessage(sess, ToolMsg(tc, result))
                /\ pc' = AfterToolCall(result, tcIdx)
                /\ iteration' = IF AfterToolCall(result, tcIdx) = "tools"
                                THEN iteration ELSE iteration + 1
    /\ tcIdx' = tcIdx + 1
    /\ UNCHANGED <<opts, max_iterations, saves, exc, response, response_text,
                   error_msg, ctxLen, sumHist, calls, sumCalls, exitKind,
                   hist0, ctxIn, sumOutcome>>
    /\ UNCHANGED notLoop

\* loop.py 194-195: the for loop ran out of iterations (its else clause)
Exhausted ==
    /\ pc = "loop" /\ ~LoopContinues
    /\ response # NoResponse
    /\ response_text' = ExhaustedText(response.content, opts.default_response)
    /\ exitKind' = "exhausted"
    /\ pc' = "persist"
    /\ UNCHANGED <<opts, max_iterations, sess, saves, exc, messages,
                   response, error_msg, ctxLen, iteration, tcIdx, sumHist,
                   calls, sumCalls, toolLog, hist0, ctxIn, sumOutcome>>
    /\ UNCHANGED notLoop

\* loop.py 194-195 with max_iterations = 0: the else clause reads the local
\* response, which no iteration has bound
ExhaustedUnbound ==
    /\ pc = "loop" /\ ~LoopContinues
    /\ response = NoResponse
    /\ Raise("UnboundLocalError")
    /\ UNCHANGED <<opts, max_iterations, sess, saves, messages, response,
                   response_text, error_msg, ctxLen, iteration, tcIdx,
                   sumHist, calls, sumCalls, toolLog, exitKind, hist0, ctxIn,
                   sumOutcome>>
    /\ UNCHANGED notLoop

\* Mutant of PersistGate: an empty final text is persisted too
PersistGateIgnoresEmpty == ~opts.no_history

\* Mutant of PersistGate: no_history is not looked at
PersistGateIgnoresNoHistory == response_text # EmptyText

\* loop.py 198: is the final text appended and the session saved?
PersistGate == response_text # EmptyText /\ ~opts.no_history

\* loop.py 197-206: save the assistant response, then summarize or return
Persist ==
    /\ pc = "persist"
    /\ sess' = IF PersistGate THEN AddMessage(sess, "assistant", response_text)
               ELSE sess
    /\ saves' = IF PersistGate THEN saves + 1 ELSE saves
    /\ pc' = IF opts.enable_summary THEN "summarize" ELSE "done"
    /\ UNCHANGED <<opts, max_iterations, exc, messages, response,
                   response_text, error_msg, ctxLen, iteration, tcIdx,
                   sumHist, calls, sumCalls, toolLog, exitKind, hist0, ctxIn,
                   sumOutcome>>
    /\ UNCHANGED notLoop

-----------------------------------------------------------------------------
(* _maybe_summarize *)

\* loop.py 224 / 247: history[:-4] and history[-4:]
AllButLast(h, k) == IF Len(h) <= k THEN << >> ELSE SubSeq(h, 1, Len(h) - k)

LastOf(h, k) == IF Len(h) <= k THEN h ELSE SubSeq(h, Len(h) - k + 1, Len(h))

\* Mutant of ShouldSummarize: a history of exactly the threshold is left alone
ShouldSummarizeAboveThreshold(h) ==
    Len(h) > SummarizeThreshold /\ AllButLast(h, KeepLast) # << >>

\* loop.py 219-226: does _maybe_summarize go on to the provider call?
ShouldSummarize(h) ==
    Len(h) >= SummarizeThreshold /\ AllButLast(h, KeepLast) # << >>

\* loop.py 219-233: read the history, check the threshold, build the prompt
SummRead ==
    /\ pc = "summarize"
    /\ sumHist' = sess.history
    /\ pc' = IF ShouldSummarize(sess.history) THEN "summ_chat" ELSE "done"
    /\ UNCHANGED <<opts, max_iterations, sess, saves, exc, messages,
                   response, response_text, error_msg, ctxLen, iteration,
                   tcIdx, calls, sumCalls, toolLog, exitKind, hist0, ctxIn,
                   sumOutcome>>
    /\ UNCHANGED notLoop

\* loop.py 219-233: reading the history or building the prompt raises; both
\* are outside the try block of _maybe_summarize (235-251) and
\* _run_agent_loop (204) does not guard the call
SummReadRaises ==
    /\ pc = "summarize"
    /\ Raise("SessionError")
    /\ UNCHANGED <<opts, max_iterations, sess, saves, messages, response,
                   response_text, error_msg, ctxLen, iteration, tcIdx,
                   sumHist, calls, sumCalls, toolLog, exitKind, hist0, ctxIn,
                   sumOutcome>>
    /\ UNCHANGED notLoop

\* Mutant of MergeSummary: the new text replaces the existing summary
MergeSummaryReplaces(existing_summary, new_summary) == new_summary

\* loop.py 242-245: the new summary, merged with the existing one
MergeSummary(existing_summary, new_summary) ==
    IF existing_summary # EmptyText
    THEN existing_summary \o <<"\n\n">> \o new_summary
    ELSE new_summary

\* Points of lines 246-248 at which a session store call may raise
WriteFailures == { "none", "set_summary", "set_history", "save" }

\* loop.py 246-248: set_summary, set_history, save, up to the call that raises
SummWrites(s, text, h, failAt) ==
    LET s1 == IF failAt = "set_summary" THEN s
              ELSE [s EXCEPT !.summary = MergeSummary(s.summary, text)]
    IN  IF failAt \in { "set_summary", "set_history" } THEN s1
        ELSE [s1 EXCEPT !.history = LastOf(h, KeepLast)]

\* loop.py 235-251: the provider call raises; caught and logged
SummChatRaises ==
    /\ pc = "summ_chat"
    /\ sumCalls' = sumCalls + 1
    /\ sumOutcome' = "provider_failed"
    /\ pc' = "done"
    /\ UNCHANGED <<opts, max_iterations, sess, saves, exc, messages,
                   response, response_text, error_msg, ctxLen, iteration,
                   tcIdx, sumHist, calls, toolLog, exitKind, hist0, ctxIn>>
    /\ UNCHANGED notLoop

\* loop.py 235-251: the provider call succeeds; summary and history are
\* written and saved; an exception of a session call is caught and logged
SummChatOk ==
    /\ pc = "summ_chat"
    /\ sumCalls' = sumCalls + 1
    /\ \E text \in SummaryTexts, failAt \in WriteFailures :
        /\ sess' = SummWrites(sess, text, sumHist, failAt)
        /\ saves' = IF failAt = "none" THEN saves + 1 ELSE saves
        /\ sumOutcome' = IF failAt = "none" THEN "ok" ELSE failAt
    /\ pc' = "done"
    /\ UNCHANGED <<opts, max_iterations, exc, messages, response,
                   response_text, error_msg, ctxLen, iteration, tcIdx,
                   sumHist, calls, toolLog, exitKind, hist0, ctxIn>>
    /\ UNCHANGED notLoop

-----------------------------------------------------------------------------

Next ==
    \/ LoadContext
    \/ LLMRaises
    \/ LLMAnswers
    \/ LLMRequestsTools
    \/ ToolArgsMalformed
    \/ ToolExecute
    \/ Exhausted
    \/ ExhaustedUnbound
    \/ Persist
    \/ SummRead
    \/ SummReadRaises
    \/ SummChatRaises
    \/ SummChatOk

Spec == Init /\ [][Next]_vars

-----------------------------------------------------------------------------
(* AgentLoop.run and AgentLoop.stop (loop.py 56-71) with the turns started  *)
(* by _handle_message (88-113).  A turn in flight is followed through the   *)
(* phases of _handle_message and _run_agent_loop; what it computes is the   *)
(* subject of Spec.                                                         *)

\* Messages published to the bus over a run
MaxInbound == 2

\* No turn of _run_agent_loop is being followed step by step
LoopIdle ==
    /\ opts = [no_history |-> FALSE, enable_summary |-> TRUE,
               default_response |-> EmptyText, user_message |-> EmptyText]
    /\ max_iterations = 0
    /\ sess = [history |-> << >>, summary |-> EmptyText]
    /\ saves = 0
    /\ pc = "idle"
    /\ exc = "none"
    /\ messages = << >>
    /\ response = NoResponse
    /\ response_text = EmptyText
    /\ error_msg = EmptyText
    /\ ctxLen = 0
    /\ iteration = 0
    /\ tcIdx = 0
    /\ sumHist = << >>
    /\ calls = 0
    /\ sumCalls = 0
    /\ toolLog = << >>
    /\ exitKind = "none"
    /\ hist0 = 0
    /\ ctxIn = NoContext
    /\ sumOutcome = "none"

InitRun ==
    /\ LoopIdle
    /\ ChatIdle
    /\ RunIdle
    /\ RestIdle

\* Phases of a turn: resolve the route (89-94), then _run_agent_loop (provider
\* call, tool calls, persistence, summarization), then publish_outbound
\* (108-113); "return" is the return of _handle_message
TurnNext(phase) ==
    CASE phase = "route"     -> { "loop" }
      [] phase = "loop"      -> { "tools", "persist" }
      [] phase = "tools"     -> { "loop" }
      [] phase = "persist"   -> { "summarize" }
      [] phase = "summarize" -> { "summ_chat", "publish", "return" }
      [] phase = "summ_chat" -> { "publish", "return" }
      [] phase = "publish"   -> { "return" }

\* Phases in which an exception can leave _handle_message: the registry
\* (89-94), response unbound at 195, json.loads at 175, the history read at
\* 219, publish_outbound at 109
TurnMayRaise == { "route", "loop", "tools", "summarize", "publish" }

\* Messages published so far
Published == Len(handled) + Len(inflight) + Len(inbound)

\* A channel publishes an inbound message to the bus
PublishInbound ==
    /\ Published < MaxInbound
    /\ inbound' = Append(inbound, Published + 1)
    /\ UNCHANGED <<running, rpc, inflight, handled, stopped>>
    /\ UNCHANGED notRun

\* loop.py 58: run() is called and sets the flag
RunStart ==
    /\ rpc = "idle"
    /\ running' = TRUE
    /\ rpc' = "check"
    /\ UNCHANGED <<inbound, inflight, handled, stopped>>
    /\ UNCHANGED notRun

\* Mutant of AfterCheck: the loop goes on whatever the flag says
AfterCheckIgnoresFlag == "consume"

\* loop.py 61: while self._running
AfterCheck == IF running THEN "consume" ELSE "returned"

\* loop.py 61: the loop condition is evaluated
RunCheck ==
    /\ rpc = "check"
    /\ rpc' = AfterCheck
    /\ UNCHANGED <<running, inbound, inflight, handled, stopped>>
    /\ UNCHANGED notRun

\* loop.py 62-64: consume_inbound returns None and the loop continues
ConsumeNone ==
    /\ rpc = "consume"
    /\ rpc' = "check"
    /\ UNCHANGED <<running, inbound, inflight, handled, stopped>>
    /\ UNCHANGED notRun

\* Mutant of AfterDispatch: the turn is started and not awaited
AfterDispatchNotAwaited == "check"

\* loop.py 66: run() awaits _handle_message
AfterDispatch == "handle"

\* loop.py 62-66: consume_inbound returns a message and _handle_message is
\* called with it
ConsumeMessage ==
    /\ rpc = "consume"
    /\ inbound # << >>
    /\ inbound' = Tail(inbound)
    /\ inflight' = Append(inflight, [msg |-> Head(inbound), phase |-> "route",
                                     flagAtStart |-> running])
    /\ rpc' = AfterDispatch
    /\ UNCHANGED <<running, handled, stopped>>
    /\ UNCHANGED notRun

\* loop.py 88-113, 115-206: a turn in flight goes on to its next phase
TurnStep ==
    /\ \E i \in 1..Len(inflight) :
          \E p \in TurnNext(inflight[i].phase) \ { "return" } :
              inflight' = [inflight EXCEPT ![i].phase = p]
    /\ UNCHANGED <<running, rpc, inbound, handled, stopped>>
    /\ UNCHANGED notRun

\* The turns in flight without the i-th
WithoutTurn(i) ==
    SubSeq(inflight, 1, i - 1) \o SubSeq(inflight, i + 1, Len(inflight))

\* The end of turn i is recorded and run(), if it awaits the turn, goes back
\* to its loop condition
TurnEnds(i, outcome) ==
    /\ handled' = Append(handled, [msg |-> inflight[i].msg,
                                   outcome |-> outcome,
                                   flagAtStart |-> inflight[i].flagAtStart,
                                   flagAtEnd |-> running])
    /\ inflight' = WithoutTurn(i)
    /\ rpc' = IF rpc = "handle" THEN "check" ELSE rpc

\* loop.py 66, 113: _handle_message returns
HandleReturns ==
    /\ \E i \in 1..Len(inflight) :
          /\ "return" \in TurnNext(inflight[i].phase)
          /\ TurnEnds(i, "ok")
    /\ UNCHANGED <<running, inbound, stopped>>
    /\ UNCHANGED notRun

\* loop.py 65-68: _handle_message raises; run() logs the exception
HandleRaises ==
    /\ \E i \in 1..Len(inflight) :
          /\ inflight[i].phase \in TurnMayRaise
          /\ TurnEnds(i, "failed")
    /\ UNCHANGED <<running, inbound, stopped>>
    /\ UNCHANGED notRun

\* loop.py 70-71: stop()
Stop ==
    /\ running' = FALSE
    /\ stopped' = TRUE
    /\ UNCHANGED <<rpc, inbound, inflight, handled>>
    /\ UNCHANGED notRun

NextRun ==
    \/ PublishInbound
    \/ RunStart
    \/ RunCheck
    \/ ConsumeNone
    \/ ConsumeMessage
    \/ TurnStep
    \/ HandleReturns
    \/ HandleRaises
    \/ Stop

SpecRun == InitRun /\ [][NextRun]_vars

-----------------------------------------------------------------------------

(* CodexProvider.chat (codex_provider.py 93-110) with _stream_request       *)
(* (112-134), _is_retryable (246-250) and _raise_friendly_error (253-273).  *)
(* A response body is a sequence of characters.                            *)

\* codex_provider.py 33
MAX_RETRIES == 3

\* codex_provider.py 34, in seconds
BASE_DELAY_S == 1

\* time.time() at the moment an error is translated, in seconds
Now == 1000

\* n times the character c
Filler(c, n) == [i \in 1..n |-> c]

\* What json.loads makes of a body that is no JSON document
NotJson == [kind |-> "invalid", code |-> << >>, plan_type |-> << >>,
            resets_at |-> 0, message |-> << >>]

\* What json.loads makes of an error envelope; resets_at 0 stands for a
\* missing resets_at
Envelope(code, plan_type, resets_at, message) ==
    [kind |-> "envelope", code |-> code, plan_type |-> plan_type,
     resets_at |-> resets_at, message |-> message]

\* The response bodies: their text, and what json.loads returns for it
Body_plain ==
    [name |-> "plain",
     text |-> <<"B","a","d"," ","R","e","q","u","e","s","t">>,
     json |-> NotJson]

Body_rate_limit_words ==
    [name |-> "rate_limit_words",
     text |-> <<"R","a","t","e"," ","l","i","m","i","t"," ","e","x","c","e",
               "e","d","e","d">>,
     json |-> NotJson]

Body_rate_limit_code ==
    [name |-> "rate_limit_code",
     text |-> <<"{","\"","e","r","r","o","r","\"",":","{","\"","c","o","d",
               "e","\"",":","\"","r","a","t","e","_","l","i","m","i","t",
               "_","e","x","c","e","e","d","e","d","\"","}","}">>,
     json |-> Envelope(<<"r","a","t","e","_","l","i","m","i","t","_","e",
                         "x","c","e","e","d","e","d">>,
                       << >>,
                       0,
                       << >>)]

Body_overloaded ==
    [name |-> "overloaded",
     text |-> <<"{","\"","e","r","r","o","r","\"",":","{","\"","m","e","s",
               "s","a","g","e","\"",":","\"","S","e","r","v","e","r"," ",
               "O","V","E","R","L","O","A","D","E","D","\"","}","}">>,
     json |-> Envelope(<< >>,
                       << >>,
                       0,
                       <<"S","e","r","v","e","r"," ","O","V","E","R","L",
                         "O","A","D","E","D">>)]

Body_unavailable ==
    [name |-> "unavailable",
     text |-> <<"S","e","r","v","i","c","e"," ","U","n","a","v","a","i","l",
               "a","b","l","e">>,
     json |-> NotJson]

Body_two_lines ==
    [name |-> "two_lines",
     text |-> <<"u","p","s","t","r","e","a","m","\n","c","o","n","n","e","c",
               "t"," ","e","r","r","o","r">>,
     json |-> NotJson]

Body_usage_soon ==
    [name |-> "usage_soon",
     text |-> <<"{","\"","e","r","r","o","r","\"",":","{","\"","c","o","d",
               "e","\"",":","\"","u","s","a","g","e","_","l","i","m","i",
               "t","_","r","e","a","c","h","e","d","\"",",","\"","p","l",
               "a","n","_","t","y","p","e","\"",":","\"","p","l","u","s",
               "\"",",","\"","r","e","s","e","t","s","_","a","t","\"",":",
               "1","0","9","0","}","}">>,
     json |-> Envelope(<<"u","s","a","g","e","_","l","i","m","i","t","_",
                         "r","e","a","c","h","e","d">>,
                       <<"p","l","u","s">>,
                       1090,
                       << >>)]

Body_usage_past ==
    [name |-> "usage_past",
     text |-> <<"{","\"","e","r","r","o","r","\"",":","{","\"","c","o","d",
               "e","\"",":","\"","u","s","a","g","e","_","l","i","m","i",
               "t","_","r","e","a","c","h","e","d","\"",",","\"","p","l",
               "a","n","_","t","y","p","e","\"",":","\"","p","l","u","s",
               "\"",",","\"","r","e","s","e","t","s","_","a","t","\"",":",
               "9","7","0","}","}">>,
     json |-> Envelope(<<"u","s","a","g","e","_","l","i","m","i","t","_",
                         "r","e","a","c","h","e","d">>,
                       <<"p","l","u","s">>,
                       970,
                       << >>)]

Body_message ==
    [name |-> "message",
     text |-> <<"{","\"","e","r","r","o","r","\"",":","{","\"","m","e","s",
               "s","a","g","e","\"",":","\"","I","n","v","a","l","i","d",
               " ","m","o","d","e","l","\"","}","}">>,
     json |-> Envelope(<< >>,
                       << >>,
                       0,
                       <<"I","n","v","a","l","i","d"," ","m","o","d","e",
                         "l">>)]

\* A body longer than the 300 characters kept in a retryable error
Body_long ==
    [name |-> "long",
     text |-> <<"B","a","d"," ","G","a","t","e","w","a","y"," ">> \o Filler("x", 290)
              \o <<" ","o","v","e","r","l","o","a","d","e","d">>,
     json |-> NotJson]

ErrorBodies ==
    { Body_plain, Body_rate_limit_words, Body_rate_limit_code,
      Body_overloaded, Body_unavailable, Body_two_lines, Body_usage_soon,
      Body_usage_past, Body_message, Body_long }

\* The body with a given name
BodyNamed(n) == CHOOSE b \in ErrorBodies : b.name = n

\* Status codes a request may meet
HttpStatuses == { 200, 400, 404, 429, 500, 502, 503, 504 }

\* The lower-case form of the upper-case letters
UpperToLower ==
    "A" :> "a" @@ "B" :> "b" @@ "C" :> "c" @@ "D" :> "d" @@
    "E" :> "e" @@ "F" :> "f" @@ "G" :> "g" @@ "H" :> "h" @@
    "I" :> "i" @@ "J" :> "j" @@ "K" :> "k" @@ "L" :> "l" @@
    "M" :> "m" @@ "N" :> "n" @@ "O" :> "o" @@ "P" :> "p" @@
    "Q" :> "q" @@ "R" :> "r" @@ "S" :> "s" @@ "T" :> "t" @@
    "U" :> "u" @@ "V" :> "v" @@ "W" :> "w" @@ "X" :> "x" @@
    "Y" :> "y" @@ "Z" :> "z"

\* str.lower / re.IGNORECASE on one character
LowerChar(c) == IF c \in DOMAIN UpperToLower THEN UpperToLower[c] ELSE c

\* Elements of a regular expression: a literal character, or ".?"
Lit(c) == [any |-> FALSE, ch |-> c]

AnyOpt == [any |-> TRUE, ch |-> ""]

Lits(s) == [i \in 1..Len(s) |-> Lit(s[i])]

\* codex_provider.py 248: the alternatives of the pattern
\* rate.?limit|overloaded|service.?unavailable|upstream.?connect
RetryPatterns ==
    << Lits(<<"r","a","t","e">>) \o <<AnyOpt>> \o Lits(<<"l","i","m","i","t">>),
       Lits(<<"o","v","e","r","l","o","a","d","e","d">>),
       Lits(<<"s","e","r","v","i","c","e">>)
           \o <<AnyOpt>> \o Lits(<<"u","n","a","v","a","i","l","a","b","l","e">>),
       Lits(<<"u","p","s","t","r","e","a","m">>)
           \o <<AnyOpt>> \o Lits(<<"c","o","n","n","e","c","t">>) >>

\* Does element e match character c?  "." matches anything but a newline;
\* literals are compared ignoring case
ElemMatches(e, c) == IF e.any THEN c # "\n" ELSE LowerChar(c) = e.ch

\* Does pattern p, from its k-th element on, match t at position i?
RECURSIVE MatchHere(_, _, _, _)
MatchHere(p, k, t, i) ==
    IF k > Len(p) THEN TRUE
    ELSE \/ p[k].any /\ MatchHere(p, k + 1, t, i)
         \/ /\ i <= Len(t)
            /\ ElemMatches(p[k], t[i])
            /\ MatchHere(p, k + 1, t, i + 1)

\* re.search(p, t, re.IGNORECASE)
ReSearch(p, t) == \E i \in 1..Len(t) : MatchHere(p, 1, t, i)

\* Mutant of RetryableStatuses: 400 is listed too
RetryableStatusesWith400 == { 400, 429, 500, 502, 503, 504 }

\* codex_provider.py 247
RetryableStatuses == { 429, 500, 502, 503, 504 }

\* Mutant of IsRetryable: the pattern is tried on 5xx responses only
IsRetryablePatternOn5xx(status, error_text) ==
    \/ status \in RetryableStatuses
    \/ /\ status >= 500
       /\ \E k \in 1..Len(RetryPatterns) : ReSearch(RetryPatterns[k], error_text)

\* codex_provider.py 246-250: _is_retryable
IsRetryable(status, error_text) ==
    \/ status \in RetryableStatuses
    \/ \E k \in 1..Len(RetryPatterns) : ReSearch(RetryPatterns[k], error_text)

\* s[:n]
Truncate(s, n) == IF Len(s) <= n THEN s ELSE SubSeq(s, 1, n)

\* Is sub a run of consecutive elements of s?
ContainsSeq(s, sub) ==
    \E i \in 1..(Len(s) + 1) :
        /\ i + Len(sub) - 1 <= Len(s)
        /\ SubSeq(s, i, i + Len(sub) - 1) = sub

\* round(n / d) of Python 3 for n >= 0, d > 0: halves go to the even neighbour
RoundDiv(n, d) ==
    LET q == n \div d
        r == n % d
    IN  IF 2 * r < d THEN q
        ELSE IF 2 * r > d THEN q + 1
        ELSE IF q % 2 = 0 THEN q ELSE q + 1

\* codex_provider.py 264: max(0, round((resets * 1000 - now * 1000) / 60000))
ResetMinutes(resets) ==
    IF resets <= Now THEN 0
    ELSE RoundDiv(resets * 1000 - Now * 1000, 60000)

\* codex_provider.py 261-267: the quota message
QuotaMessage(plan, resets) ==
    <<"ChatGPT usage limit reached">>
        \o (IF plan # << >> THEN <<" (">> \o plan \o <<" plan)">> ELSE << >>)
        \o (IF resets # 0
            THEN <<". Try again in ~", ToString(ResetMinutes(resets)), " min">>
            ELSE << >>)

\* codex_provider.py 130: the message of a _RetryableError
RetryableMessage(status, error_text) ==
    <<"Codex API error ", ToString(status), ": ">> \o Truncate(error_text, 300)

\* codex_provider.py 253-273: _raise_friendly_error; the exception it raises
RaiseFriendlyError(status, body) ==
    IF body.json.kind = "invalid"
    THEN [kind |-> "JSONDecodeError", text |-> << >>]
    ELSE LET err == body.json
         IN  IF ContainsSeq(err.code, <<"u","s","a","g","e","_","l","i","m","i","t">>)
                \/ status = 429
             THEN [kind |-> "RuntimeError",
                   text |-> QuotaMessage(err.plan_type, err.resets_at)]
             ELSE IF err.message # << >>
             THEN [kind |-> "RuntimeError",
                   text |-> <<"Codex API error: ">> \o err.message]
             ELSE [kind |-> "RuntimeError",
                   text |-> <<"Codex API error ", ToString(status), ": ">>
                                \o Truncate(body.text, 500)]

InitChat ==
    /\ LoopIdle
    /\ RunIdle
    /\ ChatIdle
    /\ RestIdle

\* The record of one request: how it ended and, for an HTTP error, whether
\* _is_retryable said it may be retried
Attempt(kind, status, retryable) ==
    [kind |-> kind, status |-> status, retryable |-> retryable]

\* What chat() returned or raised, and in which attempt
Outcome(kind, text) == [kind |-> kind, text |-> text, attempt |-> attempt]

\* codex_provider.py 93-95: chat() is called and enters its retry loop
ChatCall ==
    /\ cpc = "idle"
    /\ cpc' = "request"
    /\ attempt' = 0
    /\ UNCHANGED <<chatLog, delays, lastResp, chatResult>>
    /\ UNCHANGED notChat

\* codex_provider.py 97, 126-227: status 200 and the stream is read to its
\* end; chat() returns the response
RequestSucceeds ==
    /\ cpc = "request"
    /\ chatLog' = Append(chatLog, Attempt("http", 200, FALSE))
    /\ lastResp' = [kind |-> "http", status |-> 200, body |-> "none"]
    /\ chatResult' = Outcome("response", << >>)
    /\ cpc' = "returned"
    /\ UNCHANGED <<attempt, delays>>
    /\ UNCHANGED notChat

\* codex_provider.py 157-165, 107-108: status 200 and the stream carries an
\* error event; the RuntimeError is raised on
RequestStreamError ==
    /\ cpc = "request"
    /\ chatLog' = Append(chatLog, Attempt("stream_error", 200, FALSE))
    /\ lastResp' = [kind |-> "stream_error", status |-> 200, body |-> "none"]
    /\ chatResult' = Outcome("RuntimeError", <<"Codex stream error: ">>)
    /\ cpc' = "raised"
    /\ UNCHANGED <<attempt, delays>>
    /\ UNCHANGED notChat

\* codex_provider.py 124-125, 96-108: the request runs into the connect or
\* read timeout; httpx.TimeoutException is neither a _RetryableError nor a
\* RuntimeError, so no handler of chat() takes it
RequestTimesOut ==
    /\ cpc = "request"
    /\ chatLog' = Append(chatLog, Attempt("timeout", 0, FALSE))
    /\ lastResp' = [kind |-> "timeout", status |-> 0, body |-> "none"]
    /\ chatResult' = Outcome("TimeoutException", << >>)
    /\ cpc' = "raised"
    /\ UNCHANGED <<attempt, delays>>
    /\ UNCHANGED notChat

\* codex_provider.py 126-129: the responses with a status other than 200 a
\* request may meet, each with what _is_retryable returns for it
ErrorResponses ==
    { [status |-> s, body |-> b, retryable |-> IsRetryable(s, b.text)] :
          s \in HttpStatuses \ { 200 }, b \in ErrorBodies }

\* codex_provider.py 126-131: the request meets error response r
ErrorResponse(r) ==
    /\ cpc = "request"
    /\ chatLog' = Append(chatLog, Attempt("http", r.status, r.retryable))
    /\ lastResp' = [kind |-> "http", status |-> r.status,
                    body |-> r.body.name]

\* Mutant of RetryDelay: the delay grows by the base delay per attempt
RetryDelayLinear(n) == BASE_DELAY_S * (n + 1)

\* codex_provider.py 101: delay = BASE_DELAY_S * (2 ** attempt)
RetryDelay(n) == BASE_DELAY_S * (2 ^ n)

\* codex_provider.py 98-105: a retryable failure with retries left; chat()
\* sleeps and goes on to the next attempt
RequestRetried ==
    /\ attempt < MAX_RETRIES
    /\ \E r \in ErrorResponses :
          /\ r.retryable
          /\ ErrorResponse(r)
    /\ delays' = Append(delays, RetryDelay(attempt))
    /\ attempt' = attempt + 1
    /\ cpc' = "request"
    /\ UNCHANGED chatResult
    /\ UNCHANGED notChat

\* codex_provider.py 98-106: a retryable failure in the last attempt
RetriesExhausted ==
    /\ ~(attempt < MAX_RETRIES)
    /\ \E r \in ErrorResponses :
          /\ r.retryable
          /\ ErrorResponse(r)
          /\ chatResult' = Outcome("RuntimeError",
                                   RetryableMessage(r.status, r.body.text))
    /\ cpc' = "raised"
    /\ UNCHANGED <<attempt, delays>>
    /\ UNCHANGED notChat

\* Mutant of AfterTerminalFailure: the loop goes on to another request
AfterTerminalFailureRetries == "request"

\* codex_provider.py 107-108: except RuntimeError: raise
AfterTerminalFailure == "raised"

\* codex_provider.py 129-131, 253-273: a failure that is not retryable;
\* _raise_friendly_error raises and chat() does not handle it
RequestFailsTerminal ==
    /\ \E r \in ErrorResponses :
          /\ ~r.retryable
          /\ ErrorResponse(r)
          /\ LET e == RaiseFriendlyError(r.status, r.body)
             IN  chatResult' = Outcome(e.kind, e.text)
    /\ cpc' = AfterTerminalFailure
    /\ UNCHANGED <<attempt, delays>>
    /\ UNCHANGED notChat

NextChat ==
    \/ ChatCall
    \/ RequestSucceeds
    \/ RequestStreamError
    \/ RequestTimesOut
    \/ RequestRetried
    \/ RetriesExhausted
    \/ RequestFailsTerminal

SpecChat == InitChat /\ [][NextChat]_vars

-----------------------------------------------------------------------------

(* CodexProvider._stream_request on a 200 response (codex_provider.py      *)
(* 133-227): the events of the stream are taken one by one, then the       *)
(* response is built; chat() returns it or lets the stream's error through. *)
(* A string is the sequence of the pieces it was put together from.        *)

\* Events taken from one stream
MaxEvents == 4

BlankItem == [type |-> "", id |-> "", call_id |-> "", name |-> ""]

\* An event with every field missing
BlankEvent ==
    [type |-> "", item_id |-> "", delta |-> << >>, item |-> BlankItem,
     usage |-> NoUsage, status |-> "", message |-> "", code |-> ""]

TextDelta(d) ==
    [BlankEvent EXCEPT !.type = "response.output_text.delta", !.delta = d]

ArgsDelta(item_id, d) ==
    [BlankEvent EXCEPT !.type = "response.function_call_arguments.delta",
                       !.item_id = item_id, !.delta = d]

ItemAdded(item) ==
    [BlankEvent EXCEPT !.type = "response.output_item.added", !.item = item]

Completed(type, usage, status) ==
    [BlankEvent EXCEPT !.type = type, !.usage = usage, !.status = status]

StreamError(message, code) ==
    [BlankEvent EXCEPT !.type = "error", !.message = message, !.code = code]

ResponseFailed(message) ==
    [BlankEvent EXCEPT !.type = "response.failed", !.message = message]

\* codex_provider.py 144-153: an event without data, "[DONE]", or data that
\* is no JSON
Skipped == [BlankEvent EXCEPT !.type = "skipped"]

\* The deltas of text events
TextDeltas == { <<"Hel">>, <<"lo">> }

\* The deltas of argument events, by item
ArgsDeltas ==
    { <<"fc_1", <<"{\"q\":">> >>, <<"fc_1", <<"1}">> >>, <<"fc_2", <<"{}">> >> }

\* The items of added events: two function calls and a message
Items ==
    { [type |-> "function_call", id |-> "fc_1", call_id |-> "call_1",
       name |-> "read"],
      [type |-> "function_call", id |-> "fc_2", call_id |-> "call_2",
       name |-> "write"],
      [type |-> "message", id |-> "msg_1", call_id |-> "", name |-> ""] }

\* The terminal status events: completed with usage, done without usage and
\* with status "incomplete"
Completions ==
    { Completed("response.completed",
                [reported |-> TRUE, input |-> 5, output |-> 2], "completed"),
      Completed("response.done", NoUsage, "incomplete") }

\* The error events: with a message, with a code only
StreamErrors == { StreamError("boom", "E1"), StreamError("", "E2") }

\* The response.failed events: with and without a message
ResponseFailures == { ResponseFailed("bad request"), ResponseFailed("") }

InitStream ==
    /\ LoopIdle
    /\ RunIdle
    /\ ChatIdle
    /\ RestIdle

\* codex_provider.py 119-126, 133: the request is answered with status 200
StreamOpens ==
    /\ cpc = "request"
    /\ spc = "closed"
    /\ spc' = "reading"
    /\ content_parts' = << >>
    /\ tool_calls_by_idx' = << >>
    /\ usage_data' = NoUsage
    /\ stop_reason' = "stop"
    /\ UNCHANGED <<events, streamResult>>
    /\ UNCHANGED chatVars
    /\ UNCHANGED notStream

\* codex_provider.py 134-155: the next event is taken from the stream
Take(e) ==
    /\ spc = "reading"
    /\ Len(events) < MaxEvents
    /\ events' = Append(events, e)

\* codex_provider.py 168-171
TextDeltaEvent ==
    /\ \E d \in TextDeltas :
          /\ Take(TextDelta(d))
          /\ content_parts' =
                IF d # << >> THEN Append(content_parts, d) ELSE content_parts
    /\ UNCHANGED <<spc, tool_calls_by_idx, usage_data, stop_reason,
                   streamResult>>
    /\ UNCHANGED chatVars
    /\ UNCHANGED notStream

\* key in tool_calls_by_idx
HasKey(d, key) == \E i \in 1..Len(d) : d[i].key = key

\* The position of key in the dict
KeyIndex(d, key) == CHOOSE i \in 1..Len(d) : d[i].key = key

\* d[key] = entry: a new key goes to the end, a key already in the dict
\* keeps its position
Put(d, key, entry) ==
    IF HasKey(d, key) THEN [d EXCEPT ![KeyIndex(d, key)] = entry]
    ELSE Append(d, entry)

\* A tool-call accumulator under its key
Accumulator(key, id, name, arguments) ==
    [key |-> key, id |-> id, name |-> name, arguments |-> arguments]

\* codex_provider.py 174-179: the accumulator is created when missing, then
\* the delta is appended to its arguments
AppendArgs(d, item_id, delta) ==
    LET d1 == IF HasKey(d, item_id) THEN d
              ELSE Append(d, Accumulator(item_id, item_id, "", << >>))
        i == KeyIndex(d1, item_id)
    IN  [d1 EXCEPT ![i].arguments = d1[i].arguments \o delta]

\* codex_provider.py 174-179
ArgsDeltaEvent ==
    /\ \E a \in ArgsDeltas :
          /\ Take(ArgsDelta(a[1], a[2]))
          /\ tool_calls_by_idx' = AppendArgs(tool_calls_by_idx, a[1], a[2])
    /\ UNCHANGED <<spc, content_parts, usage_data, stop_reason, streamResult>>
    /\ UNCHANGED chatVars
    /\ UNCHANGED notStream

\* Mutant of Register: the added event does not record the name
RegisterWithoutName(d, item) ==
    Put(d, item.id, Accumulator(item.id, item.call_id, "", << >>))

\* codex_provider.py 185-190: the accumulator of the item is set to a new
\* one with the item's call_id and name and empty arguments
Register(d, item) ==
    Put(d, item.id, Accumulator(item.id, item.call_id, item.name, << >>))

\* codex_provider.py 182-190
ItemAddedEvent ==
    /\ \E item \in Items :
          /\ Take(ItemAdded(item))
          /\ tool_calls_by_idx' =
                IF item.type = "function_call"
                THEN Register(tool_calls_by_idx, item)
                ELSE tool_calls_by_idx
    /\ UNCHANGED <<spc, content_parts, usage_data, stop_reason, streamResult>>
    /\ UNCHANGED chatVars
    /\ UNCHANGED notStream

\* response_obj.get("status", "completed")
StatusOf(e) == IF e.status = "" THEN "completed" ELSE e.status

\* codex_provider.py 199-201
NextStopReason(e) ==
    IF StatusOf(e) # "completed" THEN StatusOf(e) ELSE stop_reason

\* codex_provider.py 193-201
CompletedEvent ==
    /\ \E e \in Completions :
          /\ Take(e)
          /\ usage_data' = IF e.usage.reported THEN e.usage ELSE usage_data
          /\ stop_reason' = NextStopReason(e)
    /\ UNCHANGED <<spc, content_parts, tool_calls_by_idx, streamResult>>
    /\ UNCHANGED chatVars
    /\ UNCHANGED notStream

\* codex_provider.py 144-153: the event is skipped
SkippedEvent ==
    /\ Take(Skipped)
    /\ UNCHANGED <<spc, content_parts, tool_calls_by_idx, usage_data,
                   stop_reason, streamResult>>
    /\ UNCHANGED chatVars
    /\ UNCHANGED notStream

\* Mutant of AfterErrorEvent: the loop goes on to the next event
AfterErrorEventGoesOn == "reading"

\* codex_provider.py 160, 165: raise RuntimeError
AfterErrorEvent == "raised"

\* codex_provider.py 160, 165 and 107-108: the RuntimeError leaves
\* _stream_request and chat()
StreamRaises(text) ==
    /\ spc' = AfterErrorEvent
    /\ chatLog' = Append(chatLog, Attempt("stream_error", 200, FALSE))
    /\ lastResp' = [kind |-> "stream_error", status |-> 200, body |-> "none"]
    /\ chatResult' = Outcome("RuntimeError", text)
    /\ cpc' = AfterTerminalFailure
    /\ UNCHANGED <<attempt, delays>>
    /\ UNCHANGED <<content_parts, tool_calls_by_idx, usage_data, stop_reason,
                   streamResult>>
    /\ UNCHANGED notStream

\* codex_provider.py 159: event.get("message", event.get("code", ...))
ErrorMessageOf(e) ==
    IF e.message # "" THEN e.message
    ELSE IF e.code # "" THEN e.code ELSE "Unknown error"

\* codex_provider.py 158-160
ErrorEvent ==
    \E e \in StreamErrors :
        /\ Take(e)
        /\ StreamRaises(<<"Codex stream error: ", ErrorMessageOf(e)>>)

\* codex_provider.py 162-165
FailedEvent ==
    \E e \in ResponseFailures :
        /\ Take(e)
        /\ StreamRaises(<<IF e.message # "" THEN e.message
                          ELSE "Response failed">>)

\* "".join(parts)
RECURSIVE Join(_)
Join(parts) == IF parts = << >> THEN << >> ELSE Head(parts) \o Join(Tail(parts))

\* codex_provider.py 206-213: the tool calls of the response
ToolCallList(d) ==
    [i \in 1..Len(d) |->
        [id |-> d[i].id, name |-> d[i].name,
         arguments |-> IF d[i].arguments # << >> THEN d[i].arguments
                       ELSE <<"{}">>]]

\* codex_provider.py 215-218
UsageInfo(u) ==
    IF u.reported
    THEN [reported |-> TRUE, prompt_tokens |-> u.input,
          completion_tokens |-> u.output]
    ELSE [reported |-> FALSE, prompt_tokens |-> 0, completion_tokens |-> 0]

\* Mutant of FinishReason: the status wins over the tool calls
FinishReasonStatusFirst(tool_call_list, reason) ==
    IF reason # "stop" THEN reason
    ELSE IF tool_call_list # << >> THEN "tool_calls" ELSE reason

\* codex_provider.py 220
FinishReason(tool_call_list, reason) ==
    IF tool_call_list # << >> THEN "tool_calls" ELSE reason

\* Mutant of ContentOf: the parts are joined last first
RECURSIVE ContentReversed(_)
ContentReversed(parts) ==
    IF parts = << >> THEN << >>
    ELSE ContentReversed(Tail(parts)) \o Head(parts)

\* codex_provider.py 204
ContentOf(parts) == Join(parts)

\* codex_provider.py 203-227: the LLMResponse; tool_calls << >> stands for
\* None
BuildResponse ==
    [content |-> ContentOf(content_parts),
     tool_calls |-> ToolCallList(tool_calls_by_idx),
     usage |-> UsageInfo(usage_data),
     finish_reason |-> FinishReason(ToolCallList(tool_calls_by_idx),
                                    stop_reason)]

\* Mutant of AfterStreamEnd: a stream without a terminal status event fails
AfterStreamEndNeedsTerminal ==
    IF \E i \in 1..Len(events) : events[i] \in Completions
    THEN "returned" ELSE "raised"

\* codex_provider.py 134, 203-227: the end of the stream ends the loop and
\* the response is returned
AfterStreamEnd == "returned"

\* codex_provider.py 134, 203-227, 97: the stream ends; _stream_request
\* builds the response and chat() returns it
StreamEnds ==
    /\ spc = "reading"
    /\ spc' = AfterStreamEnd
    /\ streamResult' = IF AfterStreamEnd = "returned" THEN BuildResponse
                       ELSE streamResult
    /\ chatLog' = Append(chatLog, Attempt("http", 200, FALSE))
    /\ lastResp' = [kind |-> "http", status |-> 200, body |-> "none"]
    /\ chatResult' = IF AfterStreamEnd = "returned"
                     THEN Outcome("response", ContentOf(content_parts))
                     ELSE Outcome("RuntimeError", << >>)
    /\ cpc' = AfterStreamEnd
    /\ UNCHANGED <<attempt, delays>>
    /\ UNCHANGED <<content_parts, tool_calls_by_idx, usage_data, stop_reason,
                   events>>
    /\ UNCHANGED notStream

NextStream ==
    \/ ChatCall
    \/ StreamOpens
    \/ TextDeltaEvent
    \/ ArgsDeltaEvent
    \/ ItemAddedEvent
    \/ CompletedEvent
    \/ SkippedEvent
    \/ ErrorEvent
    \/ FailedEvent
    \/ StreamEnds

SpecStream == InitStream /\ [][NextStream]_vars

-----------------------------------------------------------------------------

(***************************************************************************)
(* CredentialStore (credentials.py 38-126) with refresh_token              *)
(* (openai_oauth.py 137-166): the store is constructed on a directory,     *)
(* then its operations are called one after the other while time passes.   *)
(***************************************************************************)

\* Operations called on one store
MaxOps == 3

\* credentials.py 28: buffer_seconds
ExpiryBuffer == 300

\* openai_oauth.py 154: data.get("expires_in", 3600)
DefaultExpiresIn == 3600

Providers == { "openai", "openai-codex" }

ApiKeys == { "sk-1", "sk-2" }

\* The values time.time() takes, around the expiry 1000 minus the buffer
Times == { 0, 699, 700, 701, 1000 }

\* credentials.py 18-26: the dataclass
StoredCredential(auth_type, provider, api_key, access_token, refresh_token, expires_at, account_id) ==
    [auth_type |-> auth_type, provider |-> provider, api_key |-> api_key,
     access_token |-> access_token, refresh_token |-> refresh_token,
     expires_at |-> expires_at, account_id |-> account_id]

FieldNames ==
    { "auth_type", "provider", "api_key", "access_token", "refresh_token",
      "expires_at", "account_id" }

\* credentials.py 20-21: the fields without default
RequiredFields == { "auth_type", "provider" }

\* credentials.py 22-26: the defaults
Defaults == StoredCredential("", "", "", "", "", 0, "")

\* The OAuthCredentials given to store_oauth
OAuthInputs ==
    { [access_token |-> "at1", refresh_token |-> "rt1", expires_at |-> 1000,
       account_id |-> "acc_1"] }

\* The dict self._credentials, in insertion order
HasCred(creds, key) == \E i \in 1..Len(creds) : creds[i].key = key

GetCred(creds, key) ==
    creds[CHOOSE i \in 1..Len(creds) : creds[i].key = key].cred

\* self._credentials[key] = cred: an existing key keeps its position
PutCred(creds, key, cred) ==
    IF HasCred(creds, key)
    THEN [i \in 1..Len(creds) |->
             IF creds[i].key = key THEN [key |-> key, cred |-> cred]
             ELSE creds[i]]
    ELSE Append(creds, [key |-> key, cred |-> cred])

\* del self._credentials[key]
DelCred(creds, key) == SelectSeq(creds, LAMBDA e : e.key # key)

\* credentials.py 57: StoredCredential(**val) raises TypeError for a missing
\* required field or an unknown one
ValidDict(val) ==
    RequiredFields \subseteq DOMAIN val /\ DOMAIN val \subseteq FieldNames

Field(val, f) == IF f \in DOMAIN val THEN val[f] ELSE Defaults[f]

\* credentials.py 57: StoredCredential(**val)
FromDict(val) ==
    StoredCredential(Field(val, "auth_type"), Field(val, "provider"),
                     Field(val, "api_key"), Field(val, "access_token"),
                     Field(val, "refresh_token"), Field(val, "expires_at"),
                     Field(val, "account_id"))

\* credentials.py 56-59: the entries are loaded in order; a TypeError ends
\* the loop and is caught, what was loaded stays
RECURSIVE LoadEntries(_, _)
LoadEntries(data, creds) ==
    IF data = << >> THEN creds
    ELSE LET e == Head(data)
         IN  IF ValidDict(e.val)
             THEN LoadEntries(Tail(data),
                              PutCred(creds, e.key, FromDict(e.val)))
             ELSE creds

\* credentials.py 49-59: _load on a store whose dict is empty
Load(file) ==
    IF ~file.exists \/ ~file.json THEN << >>
    ELSE LoadEntries(file.data, << >>)

\* dataclasses.asdict
AsDict(cred) ==
    [auth_type |-> cred.auth_type, provider |-> cred.provider,
     api_key |-> cred.api_key, access_token |-> cred.access_token,
     refresh_token |-> cred.refresh_token, expires_at |-> cred.expires_at,
     account_id |-> cred.account_id]

\* Mutant of Serialize: the account id is not written
SerializeWithoutAccount(creds) ==
    [exists |-> TRUE, json |-> TRUE,
     data |-> [i \in 1..Len(creds) |->
                  [key |-> creds[i].key,
                   val |-> [f \in FieldNames \ { "account_id" } |->
                               AsDict(creds[i].cred)[f]]]]]

\* credentials.py 61-66: the file _save leaves
Serialize(creds) ==
    [exists |-> TRUE, json |-> TRUE,
     data |-> [i \in 1..Len(creds) |->
                  [key |-> creds[i].key, val |-> AsDict(creds[i].cred)]]]

\* credentials.py 28-31
IsExpired(cred) ==
    IF cred.auth_type # "oauth" THEN FALSE
    ELSE now >= cred.expires_at - ExpiryBuffer

\* The files the directory may hold when the store is constructed: none, one
\* that is no JSON, one written by hand with the required fields only, one
\* whose second entry has an unknown field
InitialFiles ==
    { NoFile,
      [exists |-> TRUE, json |-> FALSE, data |-> << >>],
      [exists |-> TRUE, json |-> TRUE,
       data |-> << [key |-> "openai",
                    val |-> [auth_type |-> "api_key", provider |-> "openai",
                             api_key |-> "sk-0"]] >>],
      [exists |-> TRUE, json |-> TRUE,
       data |-> << [key |-> "openai-codex",
                    val |-> [auth_type |-> "oauth",
                             provider |-> "openai-codex",
                             access_token |-> "at0", refresh_token |-> "rt0",
                             expires_at |-> 1000]],
                   [key |-> "openai",
                    val |-> [auth_type |-> "api_key", provider |-> "openai",
                             key |-> "sk-0"]] >>] }

\* What the token endpoint answers to a refresh request
RefreshResponse(transport, status, access, refresh, has_expires_in, expires_in, account) ==
    [transport |-> transport, status |-> status, access_token |-> access,
     refresh_token |-> refresh, has_expires_in |-> has_expires_in,
     expires_in |-> expires_in, account |-> account]

\* The answers: new tokens without and with expires_in, a refusal, an answer
\* without refresh token, an access token without account id, no answer
RefreshResponses ==
    { RefreshResponse("ok", 200, "at2", "rt2", FALSE, 0, "acc_1"),
      RefreshResponse("ok", 200, "at3", "rt3", TRUE, 400, "acc_1"),
      RefreshResponse("ok", 401, "", "", FALSE, 0, ""),
      RefreshResponse("ok", 200, "at2", "", FALSE, 0, "acc_1"),
      RefreshResponse("ok", 200, "at2", "rt2", FALSE, 0, ""),
      RefreshResponse("error", 0, "", "", FALSE, 0, "") }

\* openai_oauth.py 137-166: refresh_token
RefreshToken(resp) ==
    IF resp.transport # "ok" THEN [kind |-> "raised"]
    ELSE IF resp.status # 200 THEN [kind |-> "None"]
    ELSE IF resp.access_token = "" \/ resp.refresh_token = ""
    THEN [kind |-> "None"]
    ELSE IF resp.account = "" THEN [kind |-> "None"]
    ELSE [kind |-> "creds",
          access_token |-> resp.access_token,
          refresh_token |-> resp.refresh_token,
          expires_at |-> now + (IF resp.has_expires_in THEN resp.expires_in
                                ELSE DefaultExpiresIn),
          account_id |-> resp.account]

InitCreds ==
    /\ LoopIdle
    /\ RunIdle
    /\ ChatIdle
    /\ StreamIdle
    /\ ParseIdle
    /\ OverlapIdle
    /\ credentials = << >>
    /\ credFile \in InitialFiles
    /\ now = 0
    /\ credRet = NoReturn

\* The store has been constructed
Constructed == credRet.op # "none"

\* What an operation leaves in credRet
Return(op, provider, value, refresh) ==
    [op |-> op, provider |-> provider, value |-> value, refresh |-> refresh,
     n |-> credRet.n + 1]

\* An operation may be called
MayCall == Constructed /\ credRet.n < MaxOps

\* credentials.py 42-47: __init__
Construct ==
    /\ ~Constructed
    /\ credentials' = Load(credFile)
    /\ credRet' = [NoReturn EXCEPT !.op = "init"]
    /\ UNCHANGED <<credFile, now>>
    /\ UNCHANGED notCred

\* time.time() moves on
Tick ==
    /\ Constructed
    /\ \E t \in Times :
          /\ t > now
          /\ \A u \in Times : u > now => t <= u
          /\ now' = t
    /\ UNCHANGED <<credentials, credFile, credRet>>
    /\ UNCHANGED notCred

\* credentials.py 73-79
StoreApiKey ==
    /\ MayCall
    /\ \E provider \in Providers, api_key \in ApiKeys :
          /\ credentials' =
                PutCred(credentials, provider,
                        StoredCredential("api_key", provider, api_key, "", "",
                                         0, ""))
          /\ credRet' = Return("store_api_key", provider, "none", "none")
    /\ credFile' = Serialize(credentials')
    /\ UNCHANGED now
    /\ UNCHANGED notCred

\* credentials.py 81-90: the credential store_oauth puts under the provider
OAuthCredential(provider, creds) ==
    StoredCredential("oauth", provider, "", creds.access_token,
                     creds.refresh_token, creds.expires_at, creds.account_id)

\* credentials.py 81-90
StoreOauth ==
    /\ MayCall
    /\ \E provider \in Providers, creds \in OAuthInputs :
          /\ credentials' =
                PutCred(credentials, provider, OAuthCredential(provider, creds))
          /\ credRet' = Return("store_oauth", provider, "none", "none")
    /\ credFile' = Serialize(credentials')
    /\ UNCHANGED now
    /\ UNCHANGED notCred

\* credentials.py 118-123
Remove ==
    /\ MayCall
    /\ \E provider \in Providers :
          IF HasCred(credentials, provider)
          THEN /\ credentials' = DelCred(credentials, provider)
               /\ credFile' = Serialize(credentials')
               /\ credRet' = Return("remove", provider, "True", "none")
          ELSE /\ UNCHANGED <<credentials, credFile>>
               /\ credRet' = Return("remove", provider, "False", "none")
    /\ UNCHANGED now
    /\ UNCHANGED notCred

\* credentials.py 95-106: get_valid_token without a refresh
GetValidTokenStored ==
    /\ MayCall
    /\ \E provider \in Providers :
          IF ~HasCred(credentials, provider)
          THEN credRet' = Return("get_valid_token", provider, "absent", "none")
          ELSE LET cred == GetCred(credentials, provider)
               IN  IF cred.auth_type = "api_key"
                   THEN credRet' = Return("get_valid_token", provider,
                                          cred.api_key, "none")
                   ELSE /\ ~IsExpired(cred)
                        /\ credRet' = Return("get_valid_token", provider,
                                             cred.access_token, "none")
    /\ UNCHANGED <<credentials, credFile, now>>
    /\ UNCHANGED notCred

\* credentials.py 108-116: get_valid_token on an expired OAuth credential
GetValidTokenRefresh ==
    /\ MayCall
    /\ \E provider \in Providers, resp \in RefreshResponses :
          /\ HasCred(credentials, provider)
          /\ GetCred(credentials, provider).auth_type # "api_key"
          /\ IsExpired(GetCred(credentials, provider))
          /\ LET new_creds == RefreshToken(resp)
             IN  CASE new_creds.kind = "raised" ->
                        /\ credRet' = Return("get_valid_token", provider,
                                             "raised", "raised")
                        /\ UNCHANGED <<credentials, credFile>>
                   [] new_creds.kind = "None" ->
                        /\ credRet' = Return("get_valid_token", provider,
                                             "absent", "failed")
                        /\ UNCHANGED <<credentials, credFile>>
                   [] new_creds.kind = "creds" ->
                        /\ credentials' =
                              PutCred(credentials, provider,
                                      OAuthCredential(provider, new_creds))
                        /\ credFile' = Serialize(credentials')
                        /\ credRet' = Return("get_valid_token", provider,
                                             new_creds.access_token, "ok")
    /\ UNCHANGED now
    /\ UNCHANGED notCred

NextCreds ==
    \/ Construct
    \/ Tick
    \/ StoreApiKey
    \/ StoreOauth
    \/ Remove
    \/ GetValidTokenStored
    \/ GetValidTokenRefresh

SpecCreds == InitCreds /\ [][NextCreds]_vars

-----------------------------------------------------------------------------

(***************************************************************************)
(* _parse_auth_input (openai_oauth.py 277-302).  A pasted value is the     *)
(* sequence of its pieces: the separators "?", "&", "=", "#" and the texts *)
(* between them (texts without percent escapes); the empty string is << >>.*)
(***************************************************************************)

\* Parameters in the query of a pasted URL
MaxParams == 2

\* The position of the first tok in seq, 0 without one
IndexOf(seq, tok) ==
    IF \E i \in 1..Len(seq) : seq[i] = tok
    THEN CHOOSE i \in 1..Len(seq) :
            seq[i] = tok /\ \A j \in 1..(i - 1) : seq[j] # tok
    ELSE 0

\* str.split(tok, 1): the halves around the first tok
Before(seq, tok) == SubSeq(seq, 1, IndexOf(seq, tok) - 1)

After(seq, tok) == SubSeq(seq, IndexOf(seq, tok) + 1, Len(seq))

\* str.split(tok)
RECURSIVE SplitOn(_, _)
SplitOn(seq, tok) ==
    IF IndexOf(seq, tok) = 0 THEN <<seq>>
    ELSE <<Before(seq, tok)>> \o SplitOn(After(seq, tok), tok)

\* urllib.parse.urlsplit raises ValueError for a netloc with "[" and no "]"
InvalidUrlPrefixes == { "http://[localhost/callback" }

UrlParseRaises(value) == value # << >> /\ value[1] \in InvalidUrlPrefixes

\* urlparse(value).query: the fragment is cut at the first "#", the query
\* starts after the first "?" of what is left
UrlQuery(value) ==
    LET url == IF IndexOf(value, "#") = 0 THEN value ELSE Before(value, "#")
    IN  IF IndexOf(url, "?") = 0 THEN << >> ELSE After(url, "?")

\* parse_qs(query): the name=value pairs between "&", in order; a pair
\* without "=" or with a blank value is dropped
ParseQs(query) ==
    LET pieces == SplitOn(query, "&")
        kept == SelectSeq(pieces,
                          LAMBDA p : IndexOf(p, "=") # 0 /\ After(p, "=") # << >>)
    IN  [i \in 1..Len(kept) |->
            [name |-> Before(kept[i], "="), value |-> After(kept[i], "=")]]

\* params.get(name, [""])[0]
FirstValue(params, name) ==
    LET named == SelectSeq(params, LAMBDA p : p.name = <<name>>)
    IN  IF named = << >> THEN << >> ELSE named[1].value

\* openai_oauth.py 285-286: the state of the URL is set and is not the
\* expected one
StateMismatch(value, expected_state) ==
    LET state == FirstValue(ParseQs(UrlQuery(value)), "state")
    IN  state # << >> /\ state # <<expected_state>>

\* openai_oauth.py 289
UrlCode(value) == FirstValue(ParseQs(UrlQuery(value)), "code")

\* The values of expected_state
States == { "s1", "s2" }

\* The parameters a pasted URL may have
QueryParams ==
    { <<"code", "=", "mycode">>, <<"code", "=">>,
      <<"state", "=", "s1">>, <<"state", "=", "s2">>, <<"state", "=">>,
      <<"error", "=", "access_denied">>, <<"flag">> }

\* The queries of at most n parameters
RECURSIVE Queries(_)
Queries(n) ==
    IF n = 0 THEN { << >> }
    ELSE LET shorter == Queries(n - 1)
         IN  shorter \cup
             { IF q = << >> THEN p ELSE q \o <<"&">> \o p :
                  q \in shorter, p \in QueryParams }

UrlPrefixes == { "http://localhost:1455/auth/callback" } \cup InvalidUrlPrefixes

\* The values pasted: nothing, a code, code#state, URLs
AuthInputs ==
    { << >>, <<"mycode">>, <<"mycode", "#", "s1">>, <<"mycode", "#", "s2">>,
      <<"mycode", "#">>, <<"#", "s1">>,
      <<"http://localhost:1455/auth/callback">>,
      <<"http://localhost:1455/auth/callback", "?", "code", "=", "mycode",
        "#", "s2">> }
    \cup { <<u, "?">> \o q : u \in UrlPrefixes, q \in Queries(MaxParams) \ { << >> } }

InitParse ==
    /\ LoopIdle
    /\ RunIdle
    /\ ChatIdle
    /\ StreamIdle
    /\ CredIdle
    /\ OverlapIdle
    /\ ppc = "input"
    /\ authInput \in AuthInputs
    /\ expectedState \in States
    /\ authCode = NoCode

\* _parse_auth_input returns r
Returns(r) ==
    /\ ppc = "input"
    /\ ppc' = "parsed"
    /\ authCode' = r
    /\ UNCHANGED <<authInput, expectedState>>
    /\ UNCHANGED notParse

None == [kind |-> "None", text |-> << >>]

Str(text) == [kind |-> "str", text |-> text]

\* openai_oauth.py 278-279
ReturnNoneEmpty ==
    /\ authInput = << >>
    /\ Returns(None)

\* openai_oauth.py 286-288
ReturnNoneStateMismatch ==
    /\ authInput # << >>
    /\ ~UrlParseRaises(authInput)
    /\ StateMismatch(authInput, expectedState)
    /\ Returns(None)

\* openai_oauth.py 289-291
ReturnUrlCode ==
    /\ authInput # << >>
    /\ ~UrlParseRaises(authInput)
    /\ ~StateMismatch(authInput, expectedState)
    /\ UrlCode(authInput) # << >>
    /\ Returns(Str(UrlCode(authInput)))

\* openai_oauth.py 283-293: the URL branch raised or returned nothing
UrlBranchFallsThrough ==
    /\ authInput # << >>
    /\ \/ UrlParseRaises(authInput)
       \/ /\ ~UrlParseRaises(authInput)
          /\ ~StateMismatch(authInput, expectedState)
          /\ UrlCode(authInput) = << >>

\* openai_oauth.py 296-298
ReturnBeforeHash ==
    /\ UrlBranchFallsThrough
    /\ IndexOf(authInput, "#") # 0
    /\ Returns(Str(Before(authInput, "#")))

\* openai_oauth.py 301
ReturnRaw ==
    /\ UrlBranchFallsThrough
    /\ IndexOf(authInput, "#") = 0
    /\ Returns(Str(authInput))

NextParse ==
    \/ ReturnNoneEmpty
    \/ ReturnNoneStateMismatch
    \/ ReturnUrlCode
    \/ ReturnBeforeHash
    \/ ReturnRaw

SpecParse == InitParse /\ [][NextParse]_vars

-----------------------------------------------------------------------------

(***************************************************************************)
(* Two turns of _run_agent_loop on one session key (loop.py 115-251), as   *)
(* when process_direct is called while run() is suspended in a provider    *)
(* call.  A turn runs without interruption from one await to the next      *)
(* (142, 181, 236); the calls of the session store are synchronous.  A     *)
(* message is known by the turn that appended it and its number.           *)
(***************************************************************************)

\* Tool rounds one turn may run
MaxRounds == 1

Turns == { 1, 2 }

\* A message turn t appended as the n-th of all appended ones (turn 0: the
\* messages stored before)
TurnMsg(t, n, role) == [turn |-> t, n |-> n, role |-> role]

\* Lengths of the stored history the two turns start from
OverlapLens == { 0, SummarizeThreshold - 2 }

\* The stored sessions the two turns start from
OverlapSessions ==
    { [history |-> [i \in 1..n |->
                       TurnMsg(0, i, IF i % 2 = 1 THEN "user" ELSE "assistant")],
       summary |-> EmptyText] : n \in OverlapLens }

\* The locals of a turn that has not started
IdleTurn ==
    [pc |-> "idle", rounds |-> 0, history |-> << >>, to_summarize |-> << >>]

InitOverlap ==
    /\ LoopIdle
    /\ RunIdle
    /\ ChatIdle
    /\ StreamIdle
    /\ CredIdle
    /\ ParseIdle
    /\ osess \in OverlapSessions
    /\ oturn = [t \in Turns |-> IdleTurn]
    /\ oappended = << >>
    /\ osummarized = {}
    /\ ocopies \in BOOLEAN

\* sessions.add_message / add_full_message by turn t
Appended(t, role) == TurnMsg(t, Len(oappended) + 1, role)

\* loop.py 121-142: the turn stores the user message, builds the context and
\* awaits the provider
TurnStarts(t) ==
    /\ oturn[t].pc = "idle"
    /\ osess' = AddFullMessage(osess, Appended(t, "user"))
    /\ oappended' = Append(oappended, Appended(t, "user"))
    /\ oturn' = [oturn EXCEPT ![t].pc = "chat"]
    /\ UNCHANGED <<osummarized, ocopies>>
    /\ UNCHANGED notOverlap

\* loop.py 162-181: the provider asks for a tool call; the assistant message
\* is stored and the turn awaits the tool
TurnRequestsTool(t) ==
    /\ oturn[t].pc = "chat"
    /\ oturn[t].rounds < MaxRounds
    /\ osess' = AddFullMessage(osess, Appended(t, "assistant"))
    /\ oappended' = Append(oappended, Appended(t, "assistant"))
    /\ oturn' = [oturn EXCEPT ![t].pc = "tool"]
    /\ UNCHANGED <<osummarized, ocopies>>
    /\ UNCHANGED notOverlap

\* loop.py 185-192, 140-142: the tool returns; the tool message is stored
\* and the turn awaits the provider again
TurnToolReturns(t) ==
    /\ oturn[t].pc = "tool"
    /\ osess' = AddFullMessage(osess, Appended(t, "tool"))
    /\ oappended' = Append(oappended, Appended(t, "tool"))
    /\ oturn' = [oturn EXCEPT ![t].pc = "chat", ![t].rounds = @ + 1]
    /\ UNCHANGED <<osummarized, ocopies>>
    /\ UNCHANGED notOverlap

\* loop.py 143-160, 197-204, 219-236: the provider answers or fails; the
\* final text, if any, is stored and saved; _maybe_summarize reads the
\* history and either returns or awaits the provider
TurnAnswers(t) ==
    /\ oturn[t].pc = "chat"
    /\ \E has_text \in BOOLEAN :
          LET s == IF has_text
                   THEN AddFullMessage(osess, Appended(t, "assistant"))
                   ELSE osess
          IN  /\ osess' = s
              /\ oappended' = IF has_text
                              THEN Append(oappended, Appended(t, "assistant"))
                              ELSE oappended
              /\ oturn' =
                    IF ShouldSummarize(s.history)
                    THEN [oturn EXCEPT
                             ![t].pc = "summ_chat",
                             ![t].history = s.history,
                             ![t].to_summarize = AllButLast(s.history, KeepLast)]
                    ELSE [oturn EXCEPT ![t].pc = "done"]
    /\ UNCHANGED <<osummarized, ocopies>>
    /\ UNCHANGED notOverlap

\* The members of a sequence
Members(seq) == { seq[i] : i \in 1..Len(seq) }

\* loop.py 219, 247: the list the local history of turn t is when line 247
\* runs: the copy made at 219, or the stored list itself
LocalHistory(t) == IF ocopies THEN oturn[t].history ELSE osess.history

\* loop.py 242-249: the summarization call returned; summary and history
\* are set and saved
TurnSummarized(t) ==
    /\ oturn[t].pc = "summ_chat"
    /\ \E text \in SummaryTexts :
          osess' = [summary |-> MergeSummary(osess.summary, text),
                    history |-> LastOf(LocalHistory(t), KeepLast)]
    /\ osummarized' = osummarized \cup Members(oturn[t].to_summarize)
    /\ oturn' = [oturn EXCEPT ![t].pc = "done"]
    /\ UNCHANGED <<oappended, ocopies>>
    /\ UNCHANGED notOverlap

\* loop.py 250-251: the summarization call raised
TurnSummarizeFails(t) ==
    /\ oturn[t].pc = "summ_chat"
    /\ oturn' = [oturn EXCEPT ![t].pc = "done"]
    /\ UNCHANGED <<osess, oappended, osummarized, ocopies>>
    /\ UNCHANGED notOverlap

NextOverlap ==
    \E t \in Turns :
        \/ TurnStarts(t)
        \/ TurnRequestsTool(t)
        \/ TurnToolReturns(t)
        \/ TurnAnswers(t)
        \/ TurnSummarized(t)
        \/ TurnSummarizeFails(t)

SpecOverlap == InitOverlap /\ [][NextOverlap]_vars

-----------------------------------------------------------------------------

(* Properties *)

\* Positions of a turn after its for loop has ended
PostLoop == { "persist", "summarize", "summ_chat", "done", "raised" }

\* The messages the turn appended to the in-memory message list
TurnMessages == SubSeq(messages, ctxLen + 1, Len(messages))

\* The messages the turn appended to the stored history after the user message
TurnHistory == SubSeq(sess.history, hist0 + 2, Len(sess.history))

\* C1: in one turn the main loop makes at most agent.max_iterations provider
\* calls, whatever the provider returns.
C1_AtMostMaxIterationsCalls == calls <= max_iterations

\* A turn that used all of its MaxIter iterations
C1_Witness ==
    exitKind = "exhausted" /\ max_iterations = MaxIter /\ calls = MaxIter

\* C2: a response without tool calls ends the loop at that iteration: the
\* final text is that response's content, and afterwards the turn executes
\* no tool and makes no further main-loop provider call.
C2_AnswerEndsLoop ==
    [][ /\ exitKind' = "answer" =>
            /\ response_text' = response'.content
            /\ pc' \in PostLoop
        /\ exitKind = "answer" =>
            /\ calls' = calls
            /\ toolLog' = toolLog
            /\ messages' = messages ]_vars

\* A turn that answered after one tool round and has returned
C2_Witness ==
    /\ pc = "done" /\ exitKind = "answer"
    /\ calls = 2 /\ Len(toolLog) > 0
    /\ response_text = <<"hi">>

\* The error texts the claim calls model-identification problems
C3_MentionsModel(e) ==
    \E i \in 1..Len(e) : e[i] \in { "404", "model", "Model", "MODEL" }

\* C3: a provider call that raises ends the loop at once: it is not retried,
\* no tool is executed afterwards, and the final text is the guidance message
\* naming agent.model when the error text contains "404" or, in any case,
\* "model", and the generic provider-error message otherwise.
C3_ProviderFailureEndsTurn ==
    [][ /\ exitKind' = "error" =>
            /\ pc' \in PostLoop
            /\ C3_MentionsModel(error_msg') =>
                  /\ response_text' = ModelErrorText(error_msg')
                  /\ Contains(response_text', AgentModel)
            /\ ~C3_MentionsModel(error_msg') =>
                  response_text' = ProviderErrorText(error_msg')
        /\ exitKind = "error" =>
            /\ calls' = calls
            /\ toolLog' = toolLog
            /\ response_text' = response_text ]_vars

\* A turn whose second provider call failed with a capitalized "Model" in
\* the error text, and which has returned the guidance message
C3_Witness ==
    /\ pc = "done" /\ exitKind = "error"
    /\ error_msg = <<"unknown ", "Model">>
    /\ calls = 2 /\ Len(toolLog) > 0
    /\ response_text = ModelErrorText(error_msg)

\* C4 as stated: after a successful turn with no_history false the stored
\* history is longer by exactly 2 plus 2 per tool round.
C4_Original ==
    (pc = "done" /\ exitKind = "answer" /\ ~opts.no_history)
        => Len(sess.history) = hist0 + 2 + 2 * (calls - 1)

\* C4 as amended: when a turn with no_history false ends with a response
\* without tool calls, the stored history is, from the persist step on,
\* longer by 1 (user), plus 1 if the final text is not empty (assistant),
\* plus per tool round 1 (assistant request) and 1 per tool call of that
\* request (tool result); the one exception is a summarization at the end of
\* the turn that has cut the history down to its last 4 messages.
C4_HistoryGrowth ==
    (pc \in { "summarize", "summ_chat", "done" } /\ exitKind = "answer"
        /\ ~opts.no_history)
        => \/ Len(sess.history) =
                hist0 + 1 + (IF response_text # EmptyText THEN 1 ELSE 0)
                      + (calls - 1) + Len(toolLog)
           \/ /\ pc = "done" /\ sumCalls = 1
              /\ Len(sess.history) = KeepLast

\* A turn with one tool round of two tool calls: 5 more messages, not 4
C4_Witness ==
    /\ pc = "done" /\ exitKind = "answer" /\ ~opts.no_history
    /\ calls = 2 /\ Len(toolLog) = 2 /\ response_text # EmptyText
    /\ Len(sess.history) = hist0 + 5

\* The tool messages of a sequence of messages
ToolMsgsOf(seq) == SelectSeq(seq, LAMBDA m : m.role = "tool")

\* Position of the last assistant message before position p (0 if none)
LastAssistantBefore(seq, p) ==
    LET qs == { q \in 1..(p - 1) : seq[q].role = "assistant" }
    IN  IF qs = {} THEN 0 ELSE CHOOSE q \in qs : \A r \in qs : r <= q

\* C5: for a response with tool calls the assistant message carrying them is
\* appended first; the tools then run in the order the provider returned
\* them, each execution followed by exactly one tool message with that
\* call's id and the executor's result text; the same messages go in the
\* same order to the message list and, unless no_history, to the history.
C5_ToolRoundOrder ==
    LET A == TurnMessages
        T == ToolMsgsOf(A)
    IN  /\ Len(T) = Len(toolLog)
        /\ \A i \in 1..Len(T) :
              /\ T[i].tool_call_id = toolLog[i].id
              /\ T[i].content = toolLog[i].result
        /\ \A p \in 1..Len(A) :
              /\ A[p].role \in { "assistant", "tool" }
              /\ A[p].role = "assistant" =>
                    /\ A[p].tool_calls # << >>
                    /\ \A j \in 1..Len(A[p].tool_calls) :
                          p + j <= Len(A) =>
                              /\ A[p + j].role = "tool"
                              /\ A[p + j].tool_call_id = A[p].tool_calls[j].id
              /\ A[p].role = "tool" =>
                    LET q == LastAssistantBefore(A, p)
                    IN  q > 0 /\ p - q <= Len(A[q].tool_calls)
        /\ pc = "tools" =>
              /\ Len(A) >= tcIdx
              /\ A[Len(A) - tcIdx + 1] = AssistantMsg(response)
        /\ (pc = "loop" /\ Len(A) > 0) =>
              LET q == LastAssistantBefore(A, Len(A) + 1)
              IN  Len(A) - q = Len(A[q].tool_calls)
        /\ (~opts.no_history /\ pc \in { "loop", "tools", "persist" })
              => TurnHistory = A

\* Two tool rounds, the first with two tool calls, stored in the history
C5_Witness ==
    /\ ~opts.no_history /\ pc = "loop" /\ calls = 2
    /\ Len(toolLog) = 3
    /\ toolLog[1].id = "call_a" /\ toolLog[2].id = "call_b"
    /\ Len(TurnHistory) = 5

\* C6: when the loop is exhausted after max_iterations provider calls that
\* each returned tool calls, the final text is the last response's content
\* if not empty, else default_response if not empty, else the marker; it is
\* the marker exactly when both are empty.
C6_ExhaustionText ==
    exitKind = "exhausted" =>
        /\ calls = max_iterations
        /\ response.tool_calls # << >>
        /\ response.content # EmptyText => response_text = response.content
        /\ (response.content = EmptyText
                /\ opts.default_response # EmptyText)
              => response_text = opts.default_response
        /\ response_text = <<"(max iterations reached)">>
              <=> (response.content = EmptyText
                      /\ opts.default_response = EmptyText)

\* Exhaustion with an empty last content and a default response
C6_Witness ==
    /\ exitKind = "exhausted" /\ pc = "done"
    /\ response.content = EmptyText
    /\ opts.default_response = <<"fallback">>
    /\ response_text = <<"fallback">>

\* C7 as stated: malformed tool-call arguments end the turn with a
\* synthesized final text, never with an exception escaping the turn.
C7_MalformedArgsNeverRaise == ~(pc = "raised" /\ exc = "JSONDecodeError")

\* C8: a tool error never fails the turn: every tool call the engine
\* dispatches gets its tool message appended, whatever result the executor
\* returned, and the turn goes on to the next tool call or iteration.
C8_ToolErrorNeverFailsTurn ==
    [][ toolLog' # toolLog =>
            /\ Len(toolLog') = Len(toolLog) + 1
            /\ LET call == toolLog'[Len(toolLog')]
                   msg == Msg("tool", call.result, << >>, call.id)
               IN  /\ call.id = response.tool_calls[tcIdx].id
                   /\ messages' = Append(messages, msg)
                   /\ ~opts.no_history =>
                         sess'.history = Append(sess.history, msg)
            /\ exc' = "none"
            /\ \/ pc' = "tools" /\ tcIdx' <= Len(response.tool_calls)
                    /\ iteration' = iteration
               \/ pc' = "loop" /\ tcIdx' > Len(response.tool_calls)
                    /\ iteration' = iteration + 1 ]_vars

\* A tool call returned an error result and the turn went on: the next tool
\* call ran, then the next iteration's provider call
C8_Witness ==
    /\ Len(toolLog) = 2
    /\ toolLog[1].result = <<"Error: tool failed">>
    /\ calls = 2 /\ exc = "none"

\* C9 as stated: no failure inside _maybe_summarize propagates to its caller.
C9_SummarizeNeverRaises == ~(pc = "raised" /\ exc = "SessionError")

\* C10: the persist step depends on the final text only: with no_history
\* false a final text that is not empty is appended as one assistant message
\* and the session is saved, an empty one appends and saves nothing; in both
\* cases summarization is invoked when enable_summary is set.
C10_PersistGatedOnFinalText ==
    [][ pc = "persist" =>
            /\ (~opts.no_history /\ response_text # EmptyText) =>
                  /\ sess'.history =
                        Append(sess.history,
                               PlainMsg("assistant", response_text))
                  /\ sess'.summary = sess.summary
                  /\ saves' = saves + 1
            /\ (opts.no_history \/ response_text = EmptyText) =>
                  sess' = sess /\ saves' = saves
            /\ pc' = IF opts.enable_summary THEN "summarize" ELSE "done" ]_vars

\* An empty final text with no_history false: nothing was saved by the
\* persist step, and the summarization still ran
C10_Witness ==
    /\ ~opts.no_history /\ opts.enable_summary
    /\ exitKind = "answer" /\ response_text = EmptyText
    /\ pc = "done" /\ sumCalls = 1 /\ saves = 0
    /\ Len(sess.history) = hist0 + 1

\* C11: with no_history set, the context builder receives an empty history
\* and an empty summary (nothing of the session store reaches the context).
C11_NoHistoryEmptyContext ==
    (opts.no_history /\ ctxIn # NoContext)
        => ctxIn = [history |-> << >>, summary |-> EmptyText]

\* The step is _maybe_summarize's threshold check (loop.py 219-226)
SummCheckStep == pc = "summarize" /\ pc' \in { "summ_chat", "done" }

\* The step is a summarization whose provider call and session store calls
\* all succeeded
SummOkStep == sumOutcome = "none" /\ sumOutcome' = "ok"

IsPrefix(s, t) == Len(s) <= Len(t) /\ SubSeq(t, 1, Len(s)) = s

\* The blank-line separator of loop.py 245
BlankLine == <<"\n\n">>

\* Every value written to the summary keeps the previous summary as a prefix,
\* followed (when there was one) by a blank line and the new text
SummaryWritesKeepPrefix ==
    sess'.summary # sess.summary =>
        /\ IsPrefix(sess.summary, sess'.summary)
        /\ sess.summary # EmptyText =>
              \E text \in SummaryTexts :
                  sess'.summary = sess.summary \o BlankLine \o text

\* The step is a summarization that failed
SummFailedStep == sumOutcome = "none" /\ sumOutcome' \notin { "none", "ok" }

\* C13 as stated: every write of the summary keeps the previous summary as a
\* prefix, and a failed summarization leaves the stored summary unchanged.
C13_Original ==
    [][ /\ SummaryWritesKeepPrefix
        /\ SummFailedStep => sess'.summary = sess.summary
      ]_vars

\* C13, amended: every write of the summary keeps the previous summary as a
\* prefix (followed by a blank line and the new text); a summarization that
\* fails in the provider call or in set_summary leaves the summary unchanged,
\* and one that fails later (set_history, save) leaves the merged summary in
\* the session.
C13_SummaryNeverDiscarded ==
    [][ /\ SummaryWritesKeepPrefix
        /\ (SummFailedStep /\ sumOutcome' \in { "provider_failed", "set_summary" })
              => sess'.summary = sess.summary
        /\ (SummFailedStep /\ sumOutcome' \in { "set_history", "save" })
              => /\ sess'.summary # sess.summary
                 /\ IsPrefix(sess.summary, sess'.summary)
      ]_vars

\* A summarization of a session with a prior summary failed in save(), after
\* the merged summary was written
C13_Witness ==
    /\ pc = "done" /\ sumOutcome = "save"
    /\ sess.summary = <<"old summary">> \o BlankLine \o <<"new summary">>

\* C14: run() never has two turns in flight: while it is at its loop
\* condition, waiting for the next inbound message or returned, no turn is in
\* flight, and the turn in flight is that of the message following the ones
\* whose handling has completed or failed.
C14_OneTurnInFlight ==
    /\ Len(inflight) <= 1
    /\ rpc \in { "idle", "check", "consume", "returned" } => inflight = << >>
    /\ rpc = "handle" => Len(inflight) = 1
    /\ \A i \in 1..Len(inflight) : inflight[i].msg = Len(handled) + 1
    /\ \A k \in 1..Len(handled) : handled[k].msg = k

\* A second message is being handled after the handling of the first failed
C14_Witness ==
    /\ Len(handled) = 1 /\ handled[1].outcome = "failed"
    /\ Len(inflight) = 1 /\ inflight[1].msg = 2
    /\ inflight[1].phase = "summ_chat"

\* The step is a call of stop() that clears the flag
StopStep == running /\ ~running'

\* C15: stop() only clears the run flag (the position of run(), the queue and
\* the turn in flight are left as they are); a turn in flight leaves only by
\* returning or raising; run() returns only from its loop condition, and
\* when it finds the flag cleared there it returns, after which nothing is
\* dequeued and no turn is started.
C15_CooperativeStop ==
    [][ /\ StopStep => UNCHANGED <<rpc, inbound, inflight, handled>>
        /\ Len(inflight') < Len(inflight) =>
              /\ Len(handled') = Len(handled) + 1
              /\ handled'[Len(handled')].msg = inflight[1].msg
        /\ (rpc # "returned" /\ rpc' = "returned") =>
              rpc = "check" /\ ~running
        /\ (rpc = "check" /\ ~running /\ rpc' # rpc) => rpc' = "returned"
        /\ rpc = "returned" =>
              /\ rpc' = "returned"
              /\ Len(inbound') >= Len(inbound)
              /\ inflight' = inflight
        /\ Len(inbound') < Len(inbound) => rpc = "consume"
      ]_vars

\* stop() was called while the first turn was in flight; the turn completed,
\* run() returned and left the second message in the queue
C15_Witness ==
    /\ rpc = "returned" /\ stopped
    /\ Len(handled) = 1 /\ handled[1].outcome = "ok"
    /\ handled[1].flagAtStart /\ ~handled[1].flagAtEnd
    /\ inbound = <<2>>

\* The error response the latest request met
LastIsError(status) ==
    /\ chatLog # << >>
    /\ lastResp.kind = "http" /\ lastResp.status = status

LastAttempt == chatLog[Len(chatLog)]

\* C16: chat makes at most 4 attempts, each but the first after a retryable
\* failure of the one before; when an attempt succeeds chat returns that
\* attempt's response; when the fourth attempt fails retryably chat raises a
\* terminal error and makes no fifth attempt.
C16_AtMostFourAttempts ==
    /\ Len(chatLog) <= 4
    /\ \A i \in 1..(Len(chatLog) - 1) :
          /\ chatLog[i].kind = "http" /\ chatLog[i].status # 200
          /\ chatLog[i].retryable
    /\ cpc = "request" => Len(chatLog) = attempt /\ attempt <= 3
    /\ cpc = "returned" =>
          /\ LastAttempt.kind = "http" /\ LastAttempt.status = 200
          /\ chatResult.kind = "response"
          /\ chatResult.attempt + 1 = Len(chatLog)
    /\ (Len(chatLog) = 4 /\ LastAttempt.retryable) =>
          cpc = "raised" /\ chatResult.kind = "RuntimeError"

\* Three 503 responses, then a 200: chat returned in its fourth attempt
C16_Witness ==
    /\ cpc = "returned" /\ chatResult.attempt = 3
    /\ [i \in 1..Len(chatLog) |-> chatLog[i].status] = <<503, 503, 503, 200>>

\* str.lower()
LowerChars(t) == [i \in 1..Len(t) |-> LowerChar(t[i])]

\* The terms of the retry policy as documented
StatedTerms ==
    << <<"r","a","t","e"," ","l","i","m","i","t">>,
       <<"o","v","e","r","l","o","a","d","e","d">>,
       <<"s","e","r","v","i","c","e"," ","u","n","a","v","a","i","l","a","b","l","e">>,
       <<"u","p","s","t","r","e","a","m"," ","c","o","n","n","e","c","t">> >>

\* The retry policy as documented: a listed status, or a body that contains
\* one of the terms, ignoring case
StatedRetryable(status, text) ==
    \/ status \in { 429, 500, 502, 503, 504 }
    \/ \E k \in 1..Len(StatedTerms) : ContainsSeq(LowerChars(text), StatedTerms[k])

\* Does t contain word a followed, directly or after exactly one character
\* that is no newline, by word b?
ContainsJoined(t, a, b) ==
    \E i \in 1..Len(t) :
        /\ i + Len(a) - 1 <= Len(t)
        /\ SubSeq(t, i, i + Len(a) - 1) = a
        /\ \E gap \in { 0, 1 } :
              LET j == i + Len(a) + gap
              IN  /\ j + Len(b) - 1 <= Len(t)
                  /\ gap = 1 => t[j - 1] # "\n"
                  /\ SubSeq(t, j, j + Len(b) - 1) = b

\* The retry policy of the code: a listed status, or a body that contains,
\* ignoring case, "overloaded" or one of the word pairs rate/limit,
\* service/unavailable, upstream/connect
PatternRetryable(status, text) ==
    LET t == LowerChars(text)
    IN  \/ status \in { 429, 500, 502, 503, 504 }
        \/ ContainsSeq(t, <<"o","v","e","r","l","o","a","d","e","d">>)
        \/ ContainsJoined(t, <<"r","a","t","e">>, <<"l","i","m","i","t">>)
        \/ ContainsJoined(t, <<"s","e","r","v","i","c","e">>,
                          <<"u","n","a","v","a","i","l","a","b","l","e">>)
        \/ ContainsJoined(t, <<"u","p","s","t","r","e","a","m">>,
                          <<"c","o","n","n","e","c","t">>)

\* The error responses, by status and name of the body
ErrorInputs == (HttpStatuses \ { 200 }) \X { b.name : b \in ErrorBodies }

\* The error responses that are retryable as documented
StatedRetryableInputs ==
    { x \in ErrorInputs : StatedRetryable(x[1], BodyNamed(x[2]).text) }

\* The error responses that are retryable by the policy of the code
PatternRetryableInputs ==
    { x \in ErrorInputs : PatternRetryable(x[1], BodyNamed(x[2]).text) }

\* The step is a request that met a 400 response
Met400Step ==
    /\ Len(chatLog') = Len(chatLog) + 1
    /\ lastResp'.kind = "http" /\ lastResp'.status = 400

\* chat() raised a terminal error in the attempt of the latest request
RaisedTerminal ==
    /\ cpc = "raised"
    /\ chatResult.kind \in { "RuntimeError", "JSONDecodeError" }
    /\ chatResult.attempt + 1 = Len(chatLog)

\* C17 as stated: a 400 response is never retried, whatever its body: chat
\* raises a terminal error and makes no further request.
C17_Original ==
    [][ /\ Met400Step => RaisedTerminal'
        /\ cpc = "raised" => chatLog' = chatLog
      ]_vars

\* C17, amended: a 400 response whose body matches none of the retry
\* patterns is never retried: chat raises a terminal error and makes no
\* further request.
C17_Plain400NeverRetried ==
    [][ /\ (Met400Step /\ <<400, lastResp'.body>> \notin PatternRetryableInputs)
              => RaisedTerminal'
        /\ cpc = "raised" => chatLog' = chatLog
      ]_vars

\* A single 400 with an embedded message ended chat in its first attempt
C17_Witness ==
    /\ LastIsError(400) /\ lastResp.body = "message"
    /\ Len(chatLog) = 1 /\ cpc = "raised"
    /\ chatResult.text = <<"Codex API error: ">> \o Body_message.json.message

\* C18: a request that times out is retried with backoff; the failure is
\* surfaced only after the retry budget is spent, as a terminal provider
\* error.
C18_TimeoutRetried ==
    lastResp.kind = "timeout" =>
        \/ cpc = "request"
        \/ /\ cpc = "raised"
           /\ Len(chatLog) = MAX_RETRIES + 1
           /\ chatResult.kind = "RuntimeError"

\* C19 as stated: a non-200 response is retryable iff its status is listed
\* or its body contains, ignoring case, one of the terms "rate limit",
\* "overloaded", "service unavailable", "upstream connect".
C19_Original ==
    \A s \in HttpStatuses \ { 200 } :
        LastIsError(s) =>
            (LastAttempt.retryable <=> <<s, lastResp.body>> \in StatedRetryableInputs)

\* C19, amended: a non-200 response is retryable iff its status is listed or
\* its body contains, ignoring case, "overloaded" or one of the word pairs
\* rate/limit, service/unavailable, upstream/connect with the two words
\* joined directly or by exactly one character other than a newline.
C19_RetryableClassification ==
    \A s \in HttpStatuses \ { 200 } :
        LastIsError(s) =>
            (LastAttempt.retryable <=> <<s, lastResp.body>> \in PatternRetryableInputs)

\* A 400 whose body holds "rate_limit" was classified retryable and retried
C19_Witness ==
    /\ LastIsError(400) /\ lastResp.body = "rate_limit_code"
    /\ LastAttempt.retryable /\ cpc = "request" /\ delays = <<1>>

\* C20: when chat fails on a 429 response with the usage-limit envelope, its
\* message is the quota message: the usage-limit wording, the plan tier and
\* the minutes until the reset.
C20_QuotaMessageOn429 ==
    (cpc = "raised" /\ LastIsError(429) /\ lastResp.body = "usage_soon") =>
        /\ Contains(chatResult.text, "ChatGPT usage limit reached")
        /\ ContainsSeq(chatResult.text, Body_usage_soon.json.plan_type)
        /\ Contains(chatResult.text, "2")

\* C21: for a non-200 response that is not retryable chat raises a terminal
\* provider error whose message is the quota message when the envelope's
\* code contains "usage_limit", else the envelope's message when it has one,
\* else the generic message with the status and the truncated body; the
\* generic message is also the outcome for a body that is no JSON envelope.
C21_FriendlyErrorOrder ==
    (cpc = "raised" /\ chatLog # << >> /\ lastResp.kind = "http"
     /\ ~LastAttempt.retryable) =>
        LET body == BodyNamed(lastResp.body)
            err == body.json
            generic == <<"Codex API error ", ToString(lastResp.status), ": ">>
                           \o Truncate(body.text, 500)
        IN  /\ chatResult.kind = "RuntimeError"
            /\ chatResult.text =
                  IF err.kind = "envelope"
                     /\ ContainsSeq(err.code,
                                    <<"u","s","a","g","e","_","l","i","m","i","t">>)
                  THEN QuotaMessage(err.plan_type, err.resets_at)
                  ELSE IF err.kind = "envelope" /\ err.message # << >>
                  THEN <<"Codex API error: ">> \o err.message
                  ELSE generic

\* Event e is a text delta
IsTextDelta(e) == e.type = "response.output_text.delta"

\* Event e is an argument delta of item x
IsArgsDelta(e, x) ==
    e.type = "response.function_call_arguments.delta" /\ e.item_id = x

\* Event e announces function call x
IsAdded(e, x) ==
    /\ e.type = "response.output_item.added"
    /\ e.item.type = "function_call" /\ e.item.id = x

\* Event e is a terminal status event
IsTerminal(e) == e.type \in { "response.completed", "response.done" }

\* Event e aborts the stream
IsAbort(e) == e.type \in { "error", "response.failed" }

\* The deltas of the text events of evs, concatenated in arrival order
RECURSIVE TextOf(_)
TextOf(evs) ==
    IF evs = << >> THEN << >>
    ELSE (IF IsTextDelta(Head(evs)) THEN Head(evs).delta ELSE << >>)
             \o TextOf(Tail(evs))

\* The argument deltas of item x in evs, concatenated in arrival order
RECURSIVE ArgsOf(_, _)
ArgsOf(evs, x) ==
    IF evs = << >> THEN << >>
    ELSE (IF IsArgsDelta(Head(evs), x) THEN Head(evs).delta ELSE << >>)
             \o ArgsOf(Tail(evs), x)

\* The usage of the last terminal status event of evs that reports one
RECURSIVE ReportedUsage(_)
ReportedUsage(evs) ==
    IF evs = << >> THEN NoUsage
    ELSE LET e == evs[Len(evs)]
         IN  IF IsTerminal(e) /\ e.usage.reported THEN e.usage
             ELSE ReportedUsage(SubSeq(evs, 1, Len(evs) - 1))

\* The identifiers of function-call items
ItemIds == { "fc_1", "fc_2" }

\* Event e is about function call x
Mentions(e, x) == IsAdded(e, x) \/ IsArgsDelta(e, x)

\* The function calls of evs in order of first appearance
RECURSIVE ItemOrder(_)
ItemOrder(evs) ==
    IF evs = << >> THEN << >>
    ELSE LET front == SubSeq(evs, 1, Len(evs) - 1)
             e == evs[Len(evs)]
             new == { x \in ItemIds :
                        /\ Mentions(e, x)
                        /\ \A i \in 1..Len(front) : ~Mentions(front[i], x) }
         IN  IF new = {} THEN ItemOrder(front)
             ELSE Append(ItemOrder(front), CHOOSE x \in new : TRUE)

\* The item announced under identifier x
ItemOf(x) == CHOOSE item \in Items : item.id = x

\* The arguments of a tool call whose deltas add up to a
ArgumentsFor(a) == IF a = << >> THEN <<"{}">> ELSE a

\* C22: the content of the returned response is the concatenation, in
\* arrival order, of the deltas of all text-delta events of the stream; its
\* usage is the input/output counts of the completed event as prompt_tokens
\* and completion_tokens, absent when none was reported; before the stream
\* has ended nothing is returned.
C22_ContentAndUsage ==
    /\ spc = "returned" =>
          /\ streamResult.content = TextOf(events)
          /\ chatResult.kind = "response"
          /\ chatResult.text = TextOf(events)
          /\ LET u == ReportedUsage(events)
             IN  /\ streamResult.usage.reported = u.reported
                 /\ u.reported =>
                       /\ streamResult.usage.prompt_tokens = u.input
                       /\ streamResult.usage.completion_tokens = u.output
    /\ spc = "reading" =>
          /\ streamResult = NoStreamResult
          /\ cpc = "request" /\ chatResult.kind = "none"

\* The stream "Hel", "lo", completed with usage 5/2 gave "Hello" and 5/2
C22_Witness ==
    /\ spc = "returned"
    /\ events = << TextDelta(<<"Hel">>), TextDelta(<<"lo">>),
                   Completed("response.completed",
                             [reported |-> TRUE, input |-> 5, output |-> 2],
                             "completed") >>
    /\ streamResult.content = <<"Hel", "lo">>
    /\ streamResult.usage = [reported |-> TRUE, prompt_tokens |-> 5,
                             completion_tokens |-> 2]
    /\ streamResult.finish_reason = "stop"

\* In evs every function call is announced before its first argument delta
\* and not again after one
AddedFirst(evs) ==
    \A x \in ItemIds :
        \A j \in 1..Len(evs) :
            /\ IsArgsDelta(evs[j], x) => \E i \in 1..(j - 1) : IsAdded(evs[i], x)
            /\ IsAdded(evs[j], x) =>
                  \A i \in 1..(j - 1) : ~IsArgsDelta(evs[i], x)

\* C23: when each function call's added event precedes its argument deltas,
\* the response holds exactly one tool call per item identifier, in order of
\* first appearance, with the name (and call id) of its added event and, as
\* arguments, the concatenation of that item's deltas in arrival order, "{}"
\* when there were none.
C23_ToolCallsPerItem ==
    (spc = "returned" /\ AddedFirst(events)) =>
        LET ids == ItemOrder(events)
            tcs == streamResult.tool_calls
        IN  /\ Len(tcs) = Len(ids)
            /\ \A k \in 1..Len(ids) :
                  /\ tcs[k].id = ItemOf(ids[k]).call_id
                  /\ tcs[k].name = ItemOf(ids[k]).name
                  /\ tcs[k].arguments = ArgumentsFor(ArgsOf(events, ids[k]))

\* Two function calls, announced first, then one delta each
C23_Witness ==
    /\ spc = "returned"
    /\ events = << ItemAdded(ItemOf("fc_2")), ItemAdded(ItemOf("fc_1")),
                   ArgsDelta("fc_1", <<"1}">>), ArgsDelta("fc_2", <<"{}">>) >>
    /\ streamResult.tool_calls =
          << [id |-> "call_2", name |-> "write", arguments |-> <<"{}">>],
             [id |-> "call_1", name |-> "read", arguments |-> <<"1}">>] >>

\* C24: whatever the order of a function call's added event and its deltas
\* (added first, after some deltas, or never), the arguments of its tool
\* call are the concatenation of all its argument deltas in arrival order.
C24_ArgumentsWhateverOrder ==
    spc = "returned" =>
        LET ids == ItemOrder(events)
            tcs == streamResult.tool_calls
        IN  /\ Len(tcs) = Len(ids)
            /\ \A k \in 1..Len(ids) :
                  tcs[k].arguments = ArgumentsFor(ArgsOf(events, ids[k]))

\* C25: an error or response.failed event aborts the stream: it is the last
\* event taken, the call fails with the event's message (a RuntimeError that
\* chat() lets through in the same attempt, without a retry), and no
\* response is returned.
C25_ErrorEventAborts ==
    /\ \A i \in 1..Len(events) :
          IsAbort(events[i]) => i = Len(events) /\ spc = "raised"
    /\ spc = "raised" =>
          LET e == events[Len(events)]
          IN  /\ IsAbort(e)
              /\ chatResult.kind = "RuntimeError"
              /\ e.message # "" =>
                    chatResult.text =
                        IF e.type = "error"
                        THEN <<"Codex stream error: ", e.message>>
                        ELSE <<e.message>>
              /\ streamResult = NoStreamResult
              /\ cpc = "raised" /\ Len(chatLog) = 1 /\ delays = << >>

\* An error event after text and an argument delta: the call failed with the
\* event's message and the accumulated parts were not returned
C25_Witness ==
    /\ spc = "raised" /\ cpc = "raised"
    /\ events = << TextDelta(<<"Hel">>), ArgsDelta("fc_1", <<"1}">>),
                   StreamError("boom", "E1") >>
    /\ chatResult.text = <<"Codex stream error: ", "boom">>
    /\ content_parts # << >> /\ tool_calls_by_idx # << >>

\* No terminal status event was taken from the stream
NoTerminalEvent == \A i \in 1..Len(events) : ~IsTerminal(events[i])

\* C26: a stream that ends without a terminal status event (and without an
\* error event) is not a failure: the call returns a response with the text
\* of all text deltas taken and one tool call per function call seen.
C26_EndWithoutTerminalEvent ==
    (spc \in { "returned", "raised" } /\ NoTerminalEvent
     /\ \A i \in 1..Len(events) : ~IsAbort(events[i])) =>
        /\ spc = "returned" /\ cpc = "returned"
        /\ chatResult.kind = "response"
        /\ streamResult.content = TextOf(events)
        /\ Len(streamResult.tool_calls) = Len(ItemOrder(events))
        /\ streamResult.finish_reason \in { "stop", "tool_calls" }

\* Text and a tool call, no terminal event: the response holds both
C26_Witness ==
    /\ spc = "returned" /\ NoTerminalEvent
    /\ events = << TextDelta(<<"Hel">>), ItemAdded(ItemOf("fc_1")),
                   ArgsDelta("fc_1", <<"{\"q\":">>), ArgsDelta("fc_1", <<"1}">>) >>
    /\ streamResult.content = <<"Hel">>
    /\ streamResult.tool_calls =
          << [id |-> "call_1", name |-> "read",
              arguments |-> <<"{\"q\":", "1}">>] >>

\* The status a stream without tool calls ends with: the status of the last
\* terminal event whose status is not "completed", "stop" without one
RECURSIVE StatusReason(_)
StatusReason(evs) ==
    IF evs = << >> THEN "stop"
    ELSE LET e == evs[Len(evs)]
         IN  IF IsTerminal(e) /\ e.status \notin { "", "completed" }
             THEN e.status
             ELSE StatusReason(SubSeq(evs, 1, Len(evs) - 1))

\* C30: the finish_reason is "tool_calls" iff at least one tool-call
\* accumulator exists at the end of the stream; otherwise it is the terminal
\* status when that is not "completed", and "stop" when it is "completed" or
\* no terminal event arrived.
C30_FinishReason ==
    spc = "returned" =>
        LET fr == streamResult.finish_reason
        IN  /\ fr = "tool_calls" <=> tool_calls_by_idx # << >>
            /\ tool_calls_by_idx # << >> <=> ItemOrder(events) # << >>
            /\ ItemOrder(events) = << >> => fr = StatusReason(events)
            /\ (ItemOrder(events) = << >> /\ NoTerminalEvent) => fr = "stop"

\* A tool call and the terminal status "incomplete": tool_calls wins
C30_Witness ==
    /\ spc = "returned"
    /\ events = << ArgsDelta("fc_2", <<"{}">>),
                   Completed("response.done", NoUsage, "incomplete") >>
    /\ stop_reason = "incomplete"
    /\ streamResult.finish_reason = "tool_calls"

\* get_valid_token has just been called for provider p
GetValidTokenStep(p) ==
    /\ credRet'.n = credRet.n + 1
    /\ credRet'.op = "get_valid_token"
    /\ credRet'.provider = p

\* The call left the store and its file as they were
StoreUntouched == credentials' = credentials /\ credFile' = credFile

\* C27: get_valid_token returns absent for an unknown provider and the
\* stored key for an api_key credential; for an OAuth credential it returns
\* the stored access token without a refresh request while
\* now < expires_at - 300, and otherwise makes a refresh request: on success
\* the new credentials are stored and the new access token is returned, on
\* failure absent is returned and the stored credential stays as it was.
C27_GetValidToken ==
    [][\A p \in Providers :
          GetValidTokenStep(p) =>
             IF ~HasCred(credentials, p)
             THEN /\ credRet'.value = "absent" /\ credRet'.refresh = "none"
                  /\ StoreUntouched
             ELSE LET cred == GetCred(credentials, p)
                  IN  IF cred.auth_type = "api_key"
                      THEN /\ credRet'.value = cred.api_key
                           /\ credRet'.refresh = "none"
                           /\ StoreUntouched
                      ELSE IF now < cred.expires_at - ExpiryBuffer
                      THEN /\ credRet'.value = cred.access_token
                           /\ credRet'.refresh = "none"
                           /\ StoreUntouched
                      ELSE /\ credRet'.refresh # "none"
                           /\ credRet'.refresh = "ok" =>
                                 LET new == GetCred(credentials', p)
                                 IN  /\ new.auth_type = "oauth"
                                     /\ credRet'.value = new.access_token
                                     /\ Load(credFile') = credentials'
                           /\ credRet'.refresh # "ok" =>
                                 /\ credRet'.value = "absent"
                                 /\ StoreUntouched]_vars

\* remove has just been called for provider p
RemoveStep(p) ==
    /\ credRet'.n = credRet.n + 1
    /\ credRet'.op = "remove"
    /\ credRet'.provider = p

\* C28: after any sequence of store_api_key, store_oauth and remove
\* operations a store freshly constructed on the same directory (Load of the
\* file) holds the same providers with the same credentials as the store in
\* memory; remove returns True exactly when the provider was present, then
\* the provider is absent, and it changes nothing otherwise.
C28_FreshStoreEqual ==
    /\ [](Constructed => Load(credFile) = credentials)
    /\ [][\A p \in Providers :
             RemoveStep(p) =>
                /\ credRet'.value = "True" <=> HasCred(credentials, p)
                /\ ~HasCred(credentials', p)
                /\ \A q \in Providers \ { p } :
                      /\ HasCred(credentials', q) <=> HasCred(credentials, q)
                      /\ HasCred(credentials, q) =>
                            GetCred(credentials', q) = GetCred(credentials, q)
                /\ ~HasCred(credentials, p) => StoreUntouched]_vars

\* An API key and an OAuth credential were stored, the key was removed: the
\* file holds the OAuth credential alone, with all its fields
C28_Witness ==
    /\ credRet.op = "remove" /\ credRet.value = "True" /\ credRet.n = 3
    /\ credentials =
          << [key |-> "openai-codex",
              cred |-> StoredCredential("oauth", "openai-codex", "", "at1",
                                        "rt1", 1000, "acc_1")] >>
    /\ credFile.exists /\ Len(credFile.data) = 1
    /\ credFile.data[1].val.account_id = "acc_1"
    /\ Load(credFile) = credentials

\* The pasted value has the parameter name=text
HasParam(value, name, text) ==
    \E i \in 1..Len(value) :
        /\ SubSeq(value, i, i + 2) = <<name, "=", text>>
        /\ i > 1 /\ value[i - 1] \in { "?", "&" }
        /\ i + 2 = Len(value) \/ value[i + 3] \in { "&", "#" }

\* The pasted value is a URL with a query
IsUrl(value) == IndexOf(value, "?") # 0

\* The pasted value has the form code#state
IsCodeHashState(value) == ~IsUrl(value) /\ IndexOf(value, "#") # 0

\* The pasted value carries the state s
CarriesState(value, s) ==
    \/ IsUrl(value) /\ HasParam(value, "state", s)
    \/ IsCodeHashState(value) /\ After(value, "#") = <<s>>

\* The pasted value contains the authorization code c
ContainsCode(value, c) ==
    \/ IsUrl(value) /\ HasParam(value, "code", c)
    \/ IsCodeHashState(value) /\ Before(value, "#") = <<c>>
    \/ ~IsUrl(value) /\ IndexOf(value, "#") = 0 /\ value = <<c>>

\* C29: _parse_auth_input returns None for every pasted value that carries
\* a state different from the expected one and for the empty value, and
\* otherwise the authorization code the value contains.
C29_StateChecked ==
    ppc = "parsed" =>
        /\ authInput = << >> => authCode = None
        /\ (\E s \in States \ { expectedState } : CarriesState(authInput, s))
              => authCode = None
        /\ (~\E s \in States \ { expectedState } : CarriesState(authInput, s))
              => \A c \in { "mycode" } :
                    ContainsCode(authInput, c) => authCode = Str(<<c>>)

\* The sum of a sequence of numbers
RECURSIVE SumOf(_)
SumOf(seq) == IF seq = << >> THEN 0 ELSE Head(seq) + SumOf(Tail(seq))

\* C31: before retry number k+1 (k = 0, 1, 2) chat() waits 2^k times the
\* base delay, i.e. 1 s, 2 s, 4 s; every wait follows a failed request and
\* is followed by another request, none follows the last request of the
\* call (the final attempt, a success or a non-retryable failure), and the
\* waits of one call sum to at most 7 s.
C31_BackoffDelays ==
    /\ delays = SubSeq(<<1, 2, 4>>, 1, Len(delays))
    /\ cpc = "request" => Len(delays) = Len(chatLog)
    /\ cpc \in { "returned", "raised" } => Len(delays) = Len(chatLog) - 1
    /\ \A k \in 1..Len(delays) : chatLog[k].retryable
    /\ SumOf(delays) <= 7

\* Four retryable failures: the call waited 1, 2 and 4 s and then raised
C31_Witness ==
    /\ cpc = "raised"
    /\ Len(chatLog) = 4
    /\ delays = <<1, 2, 4>>
    /\ SumOf(delays) = 7

\* The message at position i of history h is a tool result whose request,
\* the assistant message with its tool_call_id, stands before it in h
Answered(h, i) ==
    \E j \in 1..(i - 1) :
        /\ h[j].role = "assistant"
        /\ \E k \in 1..Len(h[j].tool_calls) :
              h[j].tool_calls[k].id = h[i].tool_call_id

\* C32: every tool-role message of the stored history is preceded in that
\* history by the assistant message whose tool_calls contain its
\* tool_call_id, also after a summarization has cut the history to its
\* last 4 messages.
C32_ToolResultsKeepRequest ==
    \A i \in 1..Len(sess.history) :
        sess.history[i].role = "tool" => Answered(sess.history, i)

\* C33: a turn run with no_history true leaves the stored session as it
\* was: no step of the turn changes its history or its summary or saves
\* it, whatever enable_summary and the length of the stored history.
C33_NoHistoryLeavesSession ==
    [][opts.no_history => sess' = sess /\ saves' = saves]_vars

\* C34: with max_iterations = 0 a turn makes no provider call and does not
\* raise for want of a response: past the loop its final text is
\* default_response if that is non-empty, else "(max iterations reached)".
C34_ZeroIterationsReturns ==
    max_iterations = 0 =>
        /\ calls = 0
        /\ exc # "UnboundLocalError"
        /\ pc \in PostLoop =>
              response_text = IF opts.default_response # EmptyText
                              THEN opts.default_response
                              ELSE <<"(max iterations reached)">>

\* Both turns have returned
BothDone == \A t \in Turns : oturn[t].pc = "done"

\* C35: when two turns on one session key overlap, no appended message is
\* lost: once both have finished, every message either of them appended is
\* in the stored history or was read by a summarization that replaced it.
C35_NoAppendLost ==
    BothDone =>
        \A i \in 1..Len(oappended) :
            \/ oappended[i] \in Members(osess.history)
            \/ oappended[i] \in osummarized

\* C36: once stop() has been called run() handles no inbound message whose
\* handling had not begun: a message delivered by a dequeue that was pending
\* when stop() was called is not processed, i.e. every turn begins with the
\* run flag set.
C36_NoTurnAfterStop ==
    /\ \A i \in 1..Len(inflight) : inflight[i].flagAtStart
    /\ \A k \in 1..Len(handled) : handled[k].flagAtStart

\* C37: a turn with no_history false, which has appended at least the user
\* message to the session, has called save for the session by the time it
\* returns, an empty final text included.
C37_SavedBeforeReturn ==
    (pc = "done" /\ ~opts.no_history) => saves >= 1

\* The turn has ended, by returning or by raising
TurnOver == pc \in { "done", "raised" }

\* C38: a turn with enable_summary set that began with fewer than 20 stored
\* messages (as the turns before it left them) and whose summarization
\* provider call, if any, succeeded, ends with fewer than 20 stored
\* messages, however many tool rounds it contained.
C38_HistoryBelowThreshold ==
    (TurnOver /\ opts.enable_summary /\ hist0 < SummarizeThreshold
     /\ sumOutcome # "provider_failed")
        => Len(sess.history) < SummarizeThreshold

=============================================================================
